---- MODULE Spec2Model ----
(***************************************************************************)
(* Model of the SteamToNotion resolution pipeline:                         *)
(*   src/src/utils.py     normalize, similarity, sanitize_title, is_sequel *)
(*   src/src/rawg_api.py  query_rawg, best_rawg_match, get_rawg_data       *)
(*   src/src/steam_api.py search_app_id_by_name                            *)
(* Strings are sequences of one-character strings.  An optional value     *)
(* (Python None or a value) is a sequence of length 0 or 1.                *)
(***************************************************************************)
EXTENDS Integers, Sequences, FiniteSets, TLC

VARIABLES
    RAWG_CACHE,     \* rawg_api.RAWG_CACHE: cache key -> record
    pc,             \* position of the get_rawg_data call and of its caller
    game_name,      \* argument of the call in progress
    steam_app_id,   \* argument of the call in progress (optional int)
    strategy,       \* 1..4: the "Try" block the call is in
    search_value,   \* argument of the query_rawg call in progress
    attempt,        \* loop variable of query_rawg
    delays,         \* base delays slept by the query_rawg call in progress
    last_attempt,   \* how the last pass of query_rawg's loop ended
    res,            \* what query_rawg returned (None: no data)
    searches,       \* search strings handed to query_rawg by this call
    nrequests,      \* requests.get calls issued by this call
    clean,          \* every answer so far was no data / empty / low score
    result,         \* value returned by the call (optional record)
    matched,        \* the call returned from a strategy's accepted match
    accepted,       \* history: key -> record first returned from a match,
                    \*          by a call before the current one
    called,         \* history: keys of the earlier calls that returned
    ncalls,         \* number of calls made
    st_pc,          \* steam resolver: position
    st_name,        \* steam resolver: query
    st_response,    \* steam resolver: the catalog's answer
    st_result,      \* steam resolver: outcome
    sim_pc,         \* similarity: position
    sim_a,          \* similarity: first string
    sim_b,          \* similarity: second string
    sim_ab,         \* similarity(sim_a, sim_b)
    sim_ba,         \* similarity(sim_b, sim_a)
    est_pc,         \* duration estimator: position
    est_playtime,   \* duration estimator: rawg_playtime (optional int)
    est_genres,     \* duration estimator: genres
    est_tags,       \* duration estimator: tags
    est_result,     \* duration estimator: value returned, in tenths of an
                    \* hour (optional)
    seq_pc,         \* is_sequel: position
    seq_title,      \* is_sequel: argument
    seq_result,     \* is_sequel: value returned
    pg_pc,          \* get_app_id_for_page: position
    pg_page,        \* get_app_id_for_page: argument
    pg_response,    \* get_app_id_for_page: what the identity catalog answers
    pg_searches,    \* get_app_id_for_page: titles handed to
                    \* search_app_id_by_name
    pg_result,      \* get_app_id_for_page: outcome
    nt_pc,          \* get_notion_pages: position
    nt_payload,     \* get_notion_pages: payload["start_cursor"] (optional)
    nt_sent,        \* get_notion_pages: the start_cursor of each request made
    nt_received,    \* get_notion_pages: the responses, in order
    nt_results,     \* get_notion_pages: all_results
    ex_pc,          \* export loop: position
    ex_variant,     \* export loop: which of the two scripts runs
    ex_pages,       \* export loop: pages
    ex_index,       \* export loop: index of the page being processed
    ex_log,         \* export loop: calls made so far, [page, call]
    dt_pc,          \* get_steam_game_details: position
    dt_app_id,      \* get_steam_game_details: argument
    dt_answer,      \* get_steam_game_details: the store's answer
    dt_calls,       \* get_steam_game_details: arguments of its get_rawg_data
                    \* calls
    dt_result       \* get_steam_game_details: outcome

rawg_vars == <<RAWG_CACHE, pc, game_name, steam_app_id, strategy, search_value,
               attempt, delays, last_attempt, res, searches, nrequests, clean,
               result, matched, accepted, called, ncalls>>
steam_vars == <<st_pc, st_name, st_response, st_result>>
sim_vars == <<sim_pc, sim_a, sim_b, sim_ab, sim_ba>>
est_vars == <<est_pc, est_playtime, est_genres, est_tags, est_result>>
seq_vars == <<seq_pc, seq_title, seq_result>>
pg_vars == <<pg_pc, pg_page, pg_response, pg_searches, pg_result>>
nt_vars == <<nt_pc, nt_payload, nt_sent, nt_received, nt_results>>
ex_vars == <<ex_pc, ex_variant, ex_pages, ex_index, ex_log>>
dt_vars == <<dt_pc, dt_app_id, dt_answer, dt_calls, dt_result>>
aux_vars == <<seq_vars, pg_vars, nt_vars, ex_vars, dt_vars>>
vars == <<rawg_vars, steam_vars, sim_vars, est_vars, aux_vars>>

-----------------------------------------------------------------------------
(* Bounds of the model *)

MaxCalls == 2

MaxCands == 2

MaxLen == 3

MaxLabels == 3

MaxPlaytime == 7

-----------------------------------------------------------------------------
(* Python values *)

None == <<>>

Some(x) == <<x>>

IsNone(o) == Len(o) = 0

\* str.lower() on the upper-case letters
LowerOf ==
    "A" :> "a" @@ "B" :> "b" @@ "C" :> "c" @@ "D" :> "d"
    @@ "E" :> "e" @@ "F" :> "f" @@ "G" :> "g" @@ "H" :> "h"
    @@ "I" :> "i" @@ "J" :> "j" @@ "K" :> "k" @@ "L" :> "l"
    @@ "M" :> "m" @@ "N" :> "n" @@ "O" :> "o" @@ "P" :> "p"
    @@ "Q" :> "q" @@ "R" :> "r" @@ "S" :> "s" @@ "T" :> "t"
    @@ "U" :> "u" @@ "V" :> "v" @@ "W" :> "w" @@ "X" :> "x"
    @@ "Y" :> "y" @@ "Z" :> "z"

\* str.lower() on one character
LowerChar(c) == IF c \in DOMAIN LowerOf THEN LowerOf[c] ELSE c

Lower(s) == [i \in 1..Len(s) |-> LowerChar(s[i])]

Digits == {"0", "1", "2", "3", "4", "5", "6", "7", "8", "9"}

LowerLetters ==
    { "a", "b", "c", "d", "e", "f", "g", "h", "i", "j", "k", "l",
      "m", "n", "o", "p", "q", "r", "s", "t", "u", "v", "w",
      "x", "y", "z" }

UpperLetters ==
    { "A", "B", "C", "D", "E", "F", "G", "H", "I", "J", "K", "L",
      "M", "N", "O", "P", "Q", "R", "S", "T", "U", "V", "W",
      "X", "Y", "Z" }

\* the class \w of the regular expressions
WordChars == LowerLetters \cup UpperLetters \cup Digits \cup {"_"}

IsWordChar(c) == c \in WordChars

\* the class \s of the regular expressions
IsSpaceChar(c) == c = " "

RECURSIVE LStrip(_)
LStrip(s) ==
    IF s # <<>> /\ IsSpaceChar(Head(s)) THEN LStrip(Tail(s)) ELSE s

RECURSIVE RStrip(_)
RStrip(s) ==
    IF s # <<>> /\ IsSpaceChar(s[Len(s)])
    THEN RStrip(SubSeq(s, 1, Len(s) - 1))
    ELSE s

\* str.strip()
Strip(s) == RStrip(LStrip(s))

\* re.sub(r"[^a-z0-9 ]", "", text)
KeepAlnumSpace(c) == c \in LowerLetters \cup Digits \cup {" "}

\* utils.normalize
normalize(text) ==
    IF IsNone(text) \/ text[1] = <<>>
    THEN <<>>
    ELSE Strip(SelectSeq(Lower(text[1]), KeepAlnumSpace))

\* re.sub(r"[^\w\s]", "", t)
KeepWordSpace(c) == IsWordChar(c) \/ IsSpaceChar(c)

\* re.sub(r"\s+", " ", t)
RECURSIVE CollapseSpaces(_)
CollapseSpaces(s) ==
    IF s = <<>> THEN <<>>
    ELSE IF IsSpaceChar(Head(s))
         THEN <<" ">> \o CollapseSpaces(LStrip(s))
         ELSE <<Head(s)>> \o CollapseSpaces(Tail(s))

\* t.replace(old, new) for one-character strings
ReplaceChar(s, old, new) == [i \in 1..Len(s) |-> IF s[i] = old THEN new ELSE s[i]]

\* utils.sanitize_title
sanitize_title(title) ==
    IF title = <<>> THEN <<>>
    ELSE Strip(CollapseSpaces(SelectSeq(ReplaceChar(Lower(title), ":", " "),
                                        KeepWordSpace)))

-----------------------------------------------------------------------------
(* difflib.SequenceMatcher(None, a, b).ratio(), as utils.similarity uses it *)

\* length of the common run of a[i+1..ahi] and b[j+1..bhi]
RECURSIVE RunLen(_, _, _, _, _, _)
RunLen(a, i, ahi, b, j, bhi) ==
    IF i < ahi /\ j < bhi /\ a[i + 1] = b[j + 1]
    THEN 1 + RunLen(a, i + 1, ahi, b, j + 1, bhi)
    ELSE 0

\* the scan of SequenceMatcher.find_longest_match over the starts (i, j), in
\* the order of its loops: a longer block replaces the best one so far
RECURSIVE LongestFrom(_, _, _, _, _, _, _, _)
LongestFrom(a, ahi, b, blo, bhi, i, j, best) ==
    IF i >= ahi THEN best
    ELSE IF j >= bhi THEN LongestFrom(a, ahi, b, blo, bhi, i + 1, blo, best)
    ELSE IF RunLen(a, i, ahi, b, j, bhi) > best[3]
         THEN LongestFrom(a, ahi, b, blo, bhi, i, j + 1,
                          <<i, j, RunLen(a, i, ahi, b, j, bhi)>>)
         ELSE LongestFrom(a, ahi, b, blo, bhi, i, j + 1, best)

\* SequenceMatcher.find_longest_match: the longest block, leftmost in a, then
\* leftmost in b; <<i, j, k>> with 0-based offsets, k = 0 when none
find_longest_match(a, alo, ahi, b, blo, bhi) ==
    LongestFrom(a, ahi, b, blo, bhi, alo, blo, <<alo, blo, 0>>)

\* SequenceMatcher.get_matching_blocks: total size of the matching blocks of
\* a[alo..ahi) and b[blo..bhi), m being their longest block
RECURSIVE BlockSum(_, _, _, _, _, _, _)
BlockSum(a, alo, ahi, b, blo, bhi, m) ==
    IF m[3] = 0 THEN 0
    ELSE m[3]
         + (IF alo < m[1] /\ blo < m[2]
            THEN BlockSum(a, alo, m[1], b, blo, m[2],
                          find_longest_match(a, alo, m[1], b, blo, m[2]))
            ELSE 0)
         + (IF m[1] + m[3] < ahi /\ m[2] + m[3] < bhi
            THEN BlockSum(a, m[1] + m[3], ahi, b, m[2] + m[3], bhi,
                          find_longest_match(a, m[1] + m[3], ahi, b, m[2] + m[3], bhi))
            ELSE 0)

matching_size(a, b) ==
    BlockSum(a, 0, Len(a), b, 0, Len(b), find_longest_match(a, 0, Len(a), b, 0, Len(b)))

\* utils.similarity: the ratio 2*M/T as the fraction <<num, den>>; 1.0 when
\* both strings are empty
similarity(a, b) ==
    IF Len(a) + Len(b) = 0 THEN <<1, 1>>
    ELSE <<2 * matching_size(Lower(a), Lower(b)), Len(a) + Len(b)>>

\* comparisons of two ratios (denominators are positive)
RatioGT(x, y) == x[1] * y[2] > y[1] * x[2]

RatioGE(x, y) == x[1] * y[2] >= y[1] * x[2]

RatioLT(x, y) == x[1] * y[2] < y[1] * x[2]

Zero == <<0, 1>>

\* rawg_api.py line 39: the acceptance threshold 0.45
RawgThresholdLow == <<25, 100>>

RawgThreshold == <<45, 100>>

\* steam_api.py line 76: the acceptance threshold 0.3
SteamThreshold == <<3, 10>>

-----------------------------------------------------------------------------
(* JSON values of the enrichment catalog's answers.                        *)
(*   name value  [ty, s, n]             a string or a number               *)
(*   game entry  [ty, name, playtime, genres, tags]                        *)
(*               ty "dict" with optional keys, or a non-object entry       *)
(*   results     [ty, items, s]         list / num / str / null            *)
(*   answer      [ty, n, s, has_results, other, results]                   *)

JStr(s) == [ty |-> "str", s |-> s, n |-> 0]

JNumName(n) == [ty |-> "num", s |-> <<>>, n |-> n]

\* an object entry; absent keys are None
Game(name, playtime, genres, tags) ==
    [ty |-> "dict", name |-> name, playtime |-> playtime,
     genres |-> genres, tags |-> tags]

\* an entry that is a JSON string, not an object
StrEntry == [ty |-> "str", name |-> None, playtime |-> None,
             genres |-> None, tags |-> None]

\* one element of a "genres" / "tags" list: an object with or without "name"
NameObj(n) == [isdict |-> TRUE, name |-> Some(n)]

NoNameObj == [isdict |-> TRUE, name |-> None]

RList(items) == [ty |-> "list", items |-> items, s |-> <<>>]

RNum == [ty |-> "num", items |-> <<>>, s |-> <<>>]

RNull == [ty |-> "null", items |-> <<>>, s |-> <<>>]

ANum(n) == [ty |-> "num", n |-> n, s |-> <<>>, has_results |-> FALSE,
            other |-> FALSE, results |-> RNull]

AStr(s) == [ty |-> "str", n |-> 0, s |-> s, has_results |-> FALSE,
            other |-> FALSE, results |-> RNull]

\* an object with the key "results"
AObj(results) == [ty |-> "dict", n |-> 0, s |-> <<>>, has_results |-> TRUE,
                  other |-> FALSE, results |-> results]

\* an object without the key "results"; empty when other is FALSE
AOther(other) == [ty |-> "dict", n |-> 0, s |-> <<>>, has_results |-> FALSE,
                  other |-> other, results |-> RNull]

\* bool(x) of an answer
Truthy(v) ==
    CASE v.ty = "num"  -> v.n # 0
      [] v.ty = "str"  -> v.s # <<>>
      [] v.ty = "dict" -> v.has_results \/ v.other
      [] OTHER -> FALSE

\* bool(x) of a game entry that is an object: a dict is falsy iff empty
GameTruthy(g) ==
    ~(IsNone(g.name) /\ IsNone(g.playtime) /\ IsNone(g.genres) /\ IsNone(g.tags))

ResultsWord == <<"r", "e", "s", "u", "l", "t", "s">>

\* sub in s, for strings
IsSubstring(sub, s) ==
    \E i \in 0..(Len(s) - Len(sub)) : SubSeq(s, i + 1, i + Len(sub)) = sub

\* "results" in res: "true", "false" or "raise" (TypeError on a number)
HasResults(v) ==
    CASE v.ty = "dict" -> IF v.has_results THEN "true" ELSE "false"
      [] v.ty = "str"  -> IF IsSubstring(ResultsWord, v.s) THEN "true" ELSE "false"
      [] OTHER -> "raise"

\* len(res["results"]): -1 stands for the TypeError of len() on a number or
\* None, and of res["results"] on a string
LenResults(v) ==
    IF v.ty # "dict" THEN -1
    ELSE CASE v.results.ty = "list" -> Len(v.results.items)
           [] v.results.ty = "str"  -> Len(v.results.s)
           [] OTHER -> -1

-----------------------------------------------------------------------------
(* rawg_api.best_rawg_match and extract_rawg_fields *)

\* game.get("name", "") followed by normalize(name) raises on a non-object
\* entry and on a name that is a non-zero number
EntryRaises(g) ==
    \/ g.ty # "dict"
    \/ (~IsNone(g.name) /\ g.name[1].ty = "num" /\ g.name[1].n # 0)

\* normalize(game.get("name", ""))
EntryNorm(g) ==
    IF IsNone(g.name) \/ g.name[1].ty # "str" THEN <<>>
    ELSE normalize(Some(g.name[1].s))

\* the loop of lines 32-37, from entry i on
RECURSIVE BestLoopGE(_, _, _, _, _)
BestLoopGE(results, i, original_norm, best, best_score) ==
    IF i > Len(results) THEN [raised |-> FALSE, best |-> best, score |-> best_score]
    ELSE IF EntryRaises(results[i])
    THEN [raised |-> TRUE, best |-> None, score |-> Zero]
    ELSE LET score == similarity(original_norm, EntryNorm(results[i]))
         IN  IF RatioGE(score, best_score)
             THEN BestLoopGE(results, i + 1, original_norm, Some(results[i]), score)
             ELSE BestLoopGE(results, i + 1, original_norm, best, best_score)

RECURSIVE BestLoop(_, _, _, _, _)
BestLoop(results, i, original_norm, best, best_score) ==
    IF i > Len(results) THEN [raised |-> FALSE, best |-> best, score |-> best_score]
    ELSE IF EntryRaises(results[i])
    THEN [raised |-> TRUE, best |-> None, score |-> Zero]
    ELSE LET score == similarity(original_norm, EntryNorm(results[i]))
         IN  IF RatioGT(score, best_score)
             THEN BestLoop(results, i + 1, original_norm, Some(results[i]), score)
             ELSE BestLoop(results, i + 1, original_norm, best, best_score)

\* best_rawg_match(results, original_name): [raised, match]
best_rawg_match(results, original_name) ==
    LET r == BestLoop(results, 1, normalize(Some(original_name)), None, Zero)
    IN  IF r.raised THEN [raised |-> TRUE, match |-> None]
        ELSE [raised |-> FALSE,
              match  |-> IF RatioGE(r.score, RawgThreshold) THEN r.best ELSE None]

\* [g.get("name") for g in rawg_genres if isinstance(g, dict) and "name" in g]
NamesOf(entries) ==
    LET kept == SelectSeq(entries, LAMBDA e : e.isdict /\ ~IsNone(e.name))
    IN  [i \in 1..Len(kept) |-> kept[i].name[1]]

\* game.get("genres") or []
OrEmpty(o) == IF IsNone(o) THEN <<>> ELSE o[1]

\* extract_rawg_fields(game)
extract_rawg_fields(game) ==
    [playtime |-> game.playtime,
     genres   |-> NamesOf(OrEmpty(game.genres)),
     tags     |-> NamesOf(OrEmpty(game.tags))]

\* line 160: None, [], []
EmptyRecord == [playtime |-> None, genres |-> <<>>, tags |-> <<>>]

-----------------------------------------------------------------------------
(* Inputs: titles, identifiers and the catalog's answers *)

Titles == { <<"a", " ", "b">>,       \* sanitize_title leaves it unchanged
            <<"A", ":", "b">>,       \* sanitized "a b", slug "a-b"
            <<"B", "a">> }           \* sanitized "ba", slug "ba"

AppIds == { None, Some(7) }

GameAB == Game(Some(JStr(<<"A", "B">>)), Some(10),
               Some(<<NameObj("Action"), NoNameObj>>), Some(<<NameObj("Coop")>>))

GameAb == Game(Some(JStr(<<"a", "b">>)), Some(3), None, None)

GameFar == Game(Some(JStr(<<"b", "x", "y", "z", "x">>)), Some(50), None, None)

GameNumName == Game(Some(JNumName(5)), Some(1), None, None)

\* what one requests.get + safe_get_json can produce: [out, val]
Throw == [out |-> "throw", val |-> AOther(FALSE)]

NotJson == [out |-> "nojson", val |-> AOther(FALSE)]

Json(v) == [out |-> "json", val |-> v]

WellFormed == { Json(AObj(RList(<<>>))),
                Json(AObj(RList(<<GameAB, GameAb>>))),
                Json(AObj(RList(<<GameFar, GameAb>>))),
                Json(AObj(RList(<<GameFar>>))) }

Malformed == { Json(AOther(FALSE)),                 \* {}
               Json(AOther(TRUE)),                  \* {"detail": ...}
               Json(ANum(5)),                       \* 5
               Json(AStr(<<"n", "o">>)),            \* "no"
               Json(AStr(ResultsWord)),             \* "results"
               Json(AObj(RNum)),                    \* {"results": 5}
               Json(AObj(RList(<<StrEntry>>))),     \* {"results": ["x"]}
               Json(AObj(RList(<<GameNumName>>))) } \* {"results": [{"name": 5}]}

Responses == {Throw, NotJson} \cup WellFormed \cup Malformed

-----------------------------------------------------------------------------
(* rawg_api.get_rawg_data and query_rawg *)

\* query_rawg's default retries=3
RetriesFour == 3 + 1

Retries == 3

RECURSIVE Pow2(_)
Pow2(n) == IF n = 0 THEN 1 ELSE 2 * Pow2(n - 1)

DigitChar(d) ==
    CASE d = 0 -> "0" [] d = 1 -> "1" [] d = 2 -> "2" [] d = 3 -> "3"
      [] d = 4 -> "4" [] d = 5 -> "5" [] d = 6 -> "6" [] d = 7 -> "7"
      [] d = 8 -> "8" [] OTHER -> "9"

\* str(n) for n >= 0
RECURSIVE IntStr(_)
IntStr(n) == IF n < 10 THEN <<DigitChar(n)>>
             ELSE IntStr(n \div 10) \o <<DigitChar(n % 10)>>

\* the text an f-string gives an optional int
IdStr(id) == IF IsNone(id) THEN <<"N", "o", "n", "e">> ELSE IntStr(id[1])

\* line 114: f"{game_name}|{steam_app_id}"
CacheKey(name, id) == name \o <<"|">> \o IdStr(id)

\* line 115: cache_key in RAWG_CACHE
CacheHitNever(cache, key) == FALSE

CacheHit(cache, key) == key \in DOMAIN cache

\* RAWG_CACHE[cache_key] = rec
CacheStore(cache, key, rec) ==
    [k \in DOMAIN cache \cup {key} |-> IF k = key THEN rec ELSE cache[k]]

\* line 141: cleaned_name.replace(" ", "-")
SlugKeepsSpaces(name) == sanitize_title(name)

Slug(name) == ReplaceChar(sanitize_title(name), " ", "-")

\* line 151: f"steam {steam_app_id}"
SteamQuery(id) == <<"s", "t", "e", "a", "m", " ">> \o IdStr(id)

\* if steam_app_id: an identifier of 0 is falsy
IdTruthyAlways(id) == TRUE

IdTruthy(id) == ~IsNone(id) /\ id[1] # 0

\* the search string of a strategy
SearchOf(k, name, id) ==
    CASE k = 1 -> name
      [] k = 2 -> sanitize_title(name)
      [] k = 3 -> Slug(name)
      [] OTHER -> SteamQuery(id)

\* lines 132 and 150: whether a strategy's block issues its query
RunsAlways(k, name, id) == TRUE

Runs(k, name, id) ==
    CASE k = 2 -> sanitize_title(name) # name
      [] k = 4 -> IdTruthy(id)
      [] OTHER -> TRUE

\* the block entered after strategy k found nothing: 0 is line 158
NextStrategySkip(k, name, id) ==
    IF k >= 3 THEN 0 ELSE k + 2

RECURSIVE NextStrategy(_, _, _)
NextStrategy(k, name, id) ==
    IF k >= 4 THEN 0
    ELSE IF Runs(k + 1, name, id) THEN k + 1
    ELSE NextStrategy(k + 1, name, id)

Found(g) == [kind |-> "match", game |-> Some(g)]

NoMatch == [kind |-> "nomatch", game |-> None]

Raise == [kind |-> "raise", game |-> None]

\* lines 125-127 (and 135-136, 144-145, 153-154): match = best_rawg_match(...);
\* if match: ...
MatchOutcome(items, name) ==
    LET m == best_rawg_match(items, name)
    IN  IF m.raised THEN Raise
        ELSE IF ~IsNone(m.match) /\ GameTruthy(m.match[1]) THEN Found(m.match[1])
        ELSE NoMatch

\* lines 126-127 (and 136-137, 145-146, 154-155): the cache after a
\* strategy's block: written only under "if match:"
CacheAfterFresh(cache, key, out) ==
    IF out.kind = "match"
    THEN [k \in {key} |-> extract_rawg_fields(out.game[1])]
    ELSE cache

CacheAfterAlways(cache, key, out) ==
    IF out.kind = "match"
    THEN CacheStore(cache, key, extract_rawg_fields(out.game[1]))
    ELSE CacheStore(cache, key, EmptyRecord)

CacheAfter(cache, key, out) ==
    IF out.kind = "match"
    THEN CacheStore(cache, key, extract_rawg_fields(out.game[1]))
    ELSE cache

\* lines 121-128: the test of strategy 1 on what query_rawg returned
EvalFirst(r, name) ==
    IF IsNone(r) \/ ~Truthy(r[1]) THEN NoMatch
    ELSE IF HasResults(r[1]) = "raise" THEN Raise
    ELSE IF HasResults(r[1]) = "false" THEN NoMatch
    ELSE IF r[1].ty # "dict" THEN Raise
    ELSE IF r[1].results.ty # "list" THEN NoMatch
    ELSE IF Len(r[1].results.items) > 0
         THEN MatchOutcome(r[1].results.items, name)
         ELSE NoMatch

\* lines 134-138, 143-147, 152-156: the test of strategies 2, 3 and 4
EvalLater(r, name) ==
    IF IsNone(r) \/ ~Truthy(r[1]) THEN NoMatch
    ELSE IF HasResults(r[1]) = "raise" THEN Raise
    ELSE IF HasResults(r[1]) = "false" THEN NoMatch
    ELSE IF LenResults(r[1]) < 0 THEN Raise
    ELSE IF LenResults(r[1]) = 0 THEN NoMatch
    ELSE IF r[1].results.ty # "list" THEN Raise
    ELSE MatchOutcome(r[1].results.items, name)

Eval(k, r, name) == IF k = 1 THEN EvalFirst(r, name) ELSE EvalLater(r, name)

-----------------------------------------------------------------------------
(* History kept beside the program's state *)

\* f with key k set to v unless f already has k
Noted(f, k, v) == IF k \in DOMAIN f THEN f
                  ELSE [x \in DOMAIN f \cup {k} |-> IF x = k THEN v ELSE f[x]]

\* an answer whose entries are all objects with a string name
ListOfGames(r) ==
    /\ ~IsNone(r)
    /\ r[1].ty = "dict" /\ r[1].has_results /\ r[1].results.ty = "list"
    /\ \A i \in 1..Len(r[1].results.items) :
          /\ r[1].results.items[i].ty = "dict"
          /\ ~IsNone(r[1].results.items[i].name)
          /\ r[1].results.items[i].name[1].ty = "str"

\* the score of entry i of a list of games against a title
ScoreOf(r, i, name) ==
    similarity(normalize(Some(name)),
               normalize(Some(r[1].results.items[i].name[1].s)))

\* a strategy that failed the way the contract lists: no data, an empty
\* result list, or no candidate scoring at least 0.45
FailedCleanly(r, name) ==
    \/ IsNone(r)
    \/ /\ ListOfGames(r)
       /\ \A i \in 1..Len(r[1].results.items) :
             RatioLT(ScoreOf(r, i, name), <<45, 100>>)

-----------------------------------------------------------------------------
(* Actions of the enrichment resolver.  pc: "idle" before the first call,   *)
(* "request" at line 81, "sleep" at line 88, "query_done" when query_rawg   *)
(* has returned res, "returned" / "raised" when get_rawg_data has ended.    *)

\* no call of get_rawg_data made yet, the cache empty (line 12)
RawgIdle ==
    /\ RAWG_CACHE = <<>>
    /\ pc = "idle"
    /\ game_name = <<>>
    /\ steam_app_id = None
    /\ strategy = 0
    /\ search_value = <<>>
    /\ attempt = 0
    /\ delays = <<>>
    /\ last_attempt = "none"
    /\ res = None
    /\ searches = <<>>
    /\ nrequests = 0
    /\ clean = TRUE
    /\ result = None
    /\ matched = FALSE
    /\ accepted = <<>>
    /\ called = {}
    /\ ncalls = 0

\* search_app_id_by_name not called
SteamIdle ==
    /\ st_pc = "idle"
    /\ st_name = <<>>
    /\ st_response = None
    /\ st_result = None

\* similarity not called
SimIdle ==
    /\ sim_pc = "idle"
    /\ sim_a = <<>>
    /\ sim_b = <<>>
    /\ sim_ab = <<0, 0>>
    /\ sim_ba = <<0, 0>>

\* estimate_hltb_from_rawg not called
EstIdle ==
    /\ est_pc = "idle"
    /\ est_playtime = None
    /\ est_genres = <<>>
    /\ est_tags = <<>>
    /\ est_result = None

\* the functions of the export script other than "running" not called
AuxIdle(running) ==
    /\ \/ running = "is_sequel"
       \/ (seq_pc = "idle" /\ seq_title = <<>> /\ seq_result = FALSE)
    /\ \/ running = "get_app_id_for_page"
       \/ /\ pg_pc = "idle" /\ pg_page = <<>> /\ pg_response = <<>>
          /\ pg_searches = <<>> /\ pg_result = <<>>
    /\ \/ running = "get_notion_pages"
       \/ /\ nt_pc = "idle" /\ nt_payload = <<>> /\ nt_sent = <<>>
          /\ nt_received = <<>> /\ nt_results = <<>>
    /\ \/ running = "main"
       \/ /\ ex_pc = "idle" /\ ex_variant = "" /\ ex_pages = <<>>
          /\ ex_index = 0 /\ ex_log = <<>>
    /\ \/ running = "get_steam_game_details"
       \/ /\ dt_pc = "idle" /\ dt_app_id = 0 /\ dt_answer = <<>>
          /\ dt_calls = <<>> /\ dt_result = <<>>

Init == RawgIdle /\ SteamIdle /\ SimIdle /\ EstIdle /\ AuxIdle("")

\* get_rawg_data(name, id) is called: lines 114-119.  The call that just
\* returned joins the history.
Call(name, id) ==
    /\ pc \in {"idle", "returned"}
    /\ ncalls < MaxCalls
    /\ ncalls' = ncalls + 1
    /\ called' = IF pc = "returned"
                 THEN called \cup {<<game_name, steam_app_id>>}
                 ELSE called
    /\ accepted' = IF pc = "returned" /\ matched
                   THEN Noted(accepted, <<game_name, steam_app_id>>, result[1])
                   ELSE accepted
    /\ game_name' = name
    /\ steam_app_id' = id
    /\ nrequests' = 0
    /\ delays' = <<>>
    /\ attempt' = 0
    /\ last_attempt' = "none"
    /\ res' = None
    /\ clean' = TRUE
    /\ matched' = FALSE
    /\ IF CacheHit(RAWG_CACHE, CacheKey(name, id))
       THEN /\ result' = Some(RAWG_CACHE[CacheKey(name, id)])
            /\ pc' = "returned"
            /\ strategy' = 0
            /\ search_value' = <<>>
            /\ searches' = <<>>
       ELSE /\ result' = None
            /\ pc' = "request"
            /\ strategy' = 1
            /\ search_value' = name
            /\ searches' = <<name>>
    /\ UNCHANGED <<RAWG_CACHE, steam_vars, sim_vars, est_vars, aux_vars>>

\* one pass of query_rawg's loop body, lines 79-86: the request and its answer
Request(resp) ==
    /\ pc = "request"
    /\ attempt < Retries
    /\ nrequests' = nrequests + 1
    /\ IF resp.out = "json" /\ Truthy(resp.val)
       THEN /\ pc' = "query_done"
            /\ res' = Some(resp.val)
            /\ last_attempt' = "data"
       ELSE /\ pc' = "sleep"
            /\ res' = res
            /\ last_attempt' = IF resp.out = "json" THEN "falsy" ELSE resp.out
    /\ UNCHANGED <<RAWG_CACHE, game_name, steam_app_id, strategy, search_value,
                   attempt, delays, searches, clean, result, matched, accepted,
                   called, ncalls, steam_vars, sim_vars, est_vars, aux_vars>>

\* line 88: time.sleep((2 ** attempt) + random.random()), then the next pass
\* of the loop, or lines 90-91 when the loop is over
Sleep ==
    /\ pc = "sleep"
    /\ delays' = Append(delays, Pow2(attempt))
    /\ attempt' = attempt + 1
    /\ pc' = IF attempt + 1 < Retries THEN "request" ELSE "query_done"
    /\ last_attempt' = "none"
    /\ UNCHANGED <<RAWG_CACHE, game_name, steam_app_id, strategy, search_value,
                   res, searches, nrequests, clean, result, matched, accepted,
                   called, ncalls, steam_vars, sim_vars, est_vars, aux_vars>>

\* the values query_rawg can return: None (line 91) or a truthy decoded
\* answer (lines 83-84)
Answers ==
    {None} \cup {Some(r.val) : r \in {x \in Responses : x.out = "json" /\ Truthy(x.val)}}

\* Eval and FailedCleanly of every strategy, answer and title, computed once
EvalOf == [k \in 1..4, r \in Answers, n \in Titles |-> Eval(k, r, n)]

CleanOf == [r \in Answers, n \in Titles |-> FailedCleanly(r, n)]

\* NextStrategy and SearchOf of every strategy, title and identifier,
\* computed once
NextOf == [k \in 1..4, n \in Titles, i \in AppIds |-> NextStrategy(k, n, i)]

SearchFor == [k \in 1..4, n \in Titles, i \in AppIds |-> SearchOf(k, n, i)]

\* the rest of a strategy's block once query_rawg has returned, and the way
\* to the next query or to line 160
Evaluate ==
    LET out == EvalOf[strategy, res, game_name]
        key == CacheKey(game_name, steam_app_id)
        nxt == NextOf[strategy, game_name, steam_app_id]
    IN  /\ pc = "query_done"
        /\ clean' = (clean /\ CleanOf[res, game_name])
        /\ RAWG_CACHE' = CacheAfter(RAWG_CACHE, key, out)
        /\ CASE out.kind = "match" ->
                  /\ result' = Some(RAWG_CACHE'[key])
                  /\ pc' = "returned"
                  /\ matched' = TRUE
                  /\ UNCHANGED <<strategy, search_value, searches, attempt,
                                 delays, last_attempt, res>>
             [] out.kind = "raise" ->
                  /\ pc' = "raised"
                  /\ UNCHANGED <<result, matched, strategy, search_value,
                                 searches, attempt, delays, last_attempt, res>>
             [] OTHER ->
                  IF nxt = 0
                  THEN /\ result' = Some(EmptyRecord)
                       /\ pc' = "returned"
                       /\ UNCHANGED <<matched, strategy, search_value, searches,
                                      attempt, delays, last_attempt, res>>
                  ELSE /\ pc' = "request"
                       /\ strategy' = nxt
                       /\ search_value' = SearchFor[nxt, game_name, steam_app_id]
                       /\ searches' = Append(searches, search_value')
                       /\ attempt' = 0
                       /\ delays' = <<>>
                       /\ last_attempt' = "none"
                       /\ res' = None
                       /\ UNCHANGED <<result, matched>>
        /\ UNCHANGED <<game_name, steam_app_id, nrequests, accepted, called,
                       ncalls, steam_vars, sim_vars, est_vars, aux_vars>>

Next ==
    \/ \E name \in Titles, id \in AppIds : Call(name, id)
    \/ \E resp \in Responses : Request(resp)
    \/ Sleep
    \/ Evaluate

Spec == Init /\ [][Next]_vars

\* get_rawg_data runs to its end once called: requests.get answers or
\* raises within its timeout of 8 seconds (line 81), time.sleep returns
\* (line 88), and the code between two requests is straight-line
LiveSpec ==
    /\ Spec
    /\ WF_vars(\E resp \in Responses : Request(resp))
    /\ WF_vars(Sleep)
    /\ WF_vars(Evaluate)

-----------------------------------------------------------------------------
(* utils.is_sequel *)

\* the alternatives of r"\b(ii|iii|iv|v)\b" and r"\b([1-9]|10)\b(?!\d)"
SequelWords == { <<"i", "i">>, <<"i", "i", "i">>, <<"i", "v">>, <<"v">>,
                 <<"1">>, <<"2">>, <<"3">>, <<"4">>, <<"5">>, <<"6">>, <<"7">>,
                 <<"8">>, <<"9">>, <<"1", "0">> }

\* w (made of word characters) matches at position i of s between two \b
WordAtOpenEnded(s, i, w) ==
    /\ i + Len(w) - 1 <= Len(s)
    /\ SubSeq(s, i, i + Len(w) - 1) = w
    /\ (i = 1 \/ ~IsWordChar(s[i - 1]))

WordAt(s, i, w) ==
    /\ i + Len(w) - 1 <= Len(s)
    /\ SubSeq(s, i, i + Len(w) - 1) = w
    /\ (i = 1 \/ ~IsWordChar(s[i - 1]))
    /\ (i + Len(w) - 1 = Len(s) \/ ~IsWordChar(s[i + Len(w)]))

is_sequel(title) ==
    \E w \in SequelWords : \E i \in 1..Len(title) : WordAt(Lower(title), i, w)

-----------------------------------------------------------------------------
(* steam_api.search_app_id_by_name *)

\* a candidate of the search answer: {"name": ..., "appid": ...}, a key that
\* is absent being None
Cand(name, appid) == [name |-> name, appid |-> appid]

Resolved(id) == [kind |-> "id", appid |-> id]

Unresolved == [kind |-> "none", appid |-> 0]

Raised == [kind |-> "raise", appid |-> 0]

\* c["appid"]
AppIdOf(c) == IF IsNone(c.appid) THEN Raised ELSE Resolved(c.appid[1])

\* lines 40-42: the first candidate equal to the query without case, 0 when
\* none, -1 when c["name"] raises before one is found
RECURSIVE ExactIndexCased(_, _, _)
ExactIndexCased(cands, name, i) ==
    IF i > Len(cands) THEN 0
    ELSE IF IsNone(cands[i].name) THEN -1
    ELSE IF cands[i].name[1] = name THEN i
    ELSE ExactIndexCased(cands, name, i + 1)

RECURSIVE ExactIndex(_, _, _)
ExactIndex(cands, name, i) ==
    IF i > Len(cands) THEN 0
    ELSE IF IsNone(cands[i].name) THEN -1
    ELSE IF Lower(cands[i].name[1]) = Lower(name) THEN i
    ELSE ExactIndex(cands, name, i + 1)

\* str.startswith
StartsWith(s, p) == Len(p) <= Len(s) /\ SubSeq(s, 1, Len(p)) = p

StartsWithMatchesNonSequel(cands, name_norm) ==
    SelectSeq(cands, LAMBDA c : /\ StartsWith(normalize(c.name), name_norm)
                                /\ ~is_sequel(c.name[1]))

\* lines 45-48
StartsWithMatches(cands, name_norm) ==
    SelectSeq(cands, LAMBDA c : StartsWith(normalize(c.name), name_norm))

FilteredNoSequelTest(cands, name_norm, name_is_sequel) ==
    LET kept == SelectSeq(cands, LAMBDA c :
                    \/ IsSubstring(name_norm, normalize(c.name))
                    \/ IsSubstring(normalize(c.name), name_norm))
    IN  IF kept = <<>> THEN cands ELSE kept

\* lines 53-66
Filtered(cands, name_norm, name_is_sequel) ==
    LET kept == SelectSeq(cands, LAMBDA c :
                    /\ ~(is_sequel(c.name[1]) /\ ~name_is_sequel)
                    /\ \/ IsSubstring(name_norm, normalize(c.name))
                       \/ IsSubstring(normalize(c.name), name_norm))
    IN  IF kept = <<>> THEN cands ELSE kept

RECURSIVE BestCandidateLast(_, _, _, _, _)
BestCandidateLast(cands, name_norm, i, best_score, best_app_id) ==
    IF i > Len(cands) THEN [score |-> best_score, found |-> best_app_id]
    ELSE IF RatioGE(similarity(name_norm, normalize(cands[i].name)), best_score)
    THEN IF IsNone(cands[i].appid)
         THEN [score |-> Zero, found |-> Raised]
         ELSE BestCandidateLast(cands, name_norm, i + 1,
                                similarity(name_norm, normalize(cands[i].name)),
                                Resolved(cands[i].appid[1]))
    ELSE BestCandidateLast(cands, name_norm, i + 1, best_score, best_app_id)

\* lines 69-73, from candidate i on: [score, found]
RECURSIVE BestCandidate(_, _, _, _, _)
BestCandidate(cands, name_norm, i, best_score, best_app_id) ==
    IF i > Len(cands) THEN [score |-> best_score, found |-> best_app_id]
    ELSE IF RatioGT(similarity(name_norm, normalize(cands[i].name)), best_score)
    THEN IF IsNone(cands[i].appid)
         THEN [score |-> Zero, found |-> Raised]
         ELSE BestCandidate(cands, name_norm, i + 1,
                            similarity(name_norm, normalize(cands[i].name)),
                            Resolved(cands[i].appid[1]))
    ELSE BestCandidate(cands, name_norm, i + 1, best_score, best_app_id)

\* lines 76-79
Thresholded(b) ==
    IF b.found.kind = "raise" THEN Raised
    ELSE IF RatioLT(b.score, SteamThreshold) THEN Unresolved
    ELSE b.found

\* lines 33-79, the answer being a non-empty list of candidates
Resolve(cands, name) ==
    IF ExactIndex(cands, name, 1) < 0 THEN Raised
    ELSE IF ExactIndex(cands, name, 1) > 0
    THEN AppIdOf(cands[ExactIndex(cands, name, 1)])
    ELSE IF StartsWithMatches(cands, normalize(Some(name))) # <<>>
    THEN AppIdOf(StartsWithMatches(cands, normalize(Some(name)))[1])
    ELSE Thresholded(BestCandidate(
             Filtered(cands, normalize(Some(name)), is_sequel(name)),
             normalize(Some(name)), 1, Zero, Unresolved))

\* search_app_id_by_name(name), the catalog answering resp = [out, cands]:
\*   "nojson"  res.json() raises                        (lines 25-28)
\*   "falsy"   JSON that is not a list and is falsy: null, {}, 0, ""
\*                                                       (lines 30-31)
\*   "notlist" JSON that is not a list and is truthy: a number, a non-empty
\*             object or string; the loop of line 40 or c["name"] raises
\*   "json"    a list of candidates
search_app_id_by_name(name, resp) ==
    IF resp.out = "nojson" THEN Unresolved
    ELSE IF resp.out = "falsy" THEN Unresolved
    ELSE IF resp.out = "notlist" THEN Raised
    ELSE IF resp.cands = <<>> THEN Unresolved
    ELSE Resolve(resp.cands, name)

\* queries and candidates of the identity catalog
SteamNames == { <<"a", "b">>, <<"a">>, <<"!">>, <<"a", "b", " ", "2">>,
                <<"a", "b", "c">> }

\* a name of 17 characters that scores exactly 6/20 against "abc"
LongName == <<"x", "x", "x", "x", "x", "x", "x", "x", "x", "x", "x", "x",
              "x", "x", "a", "b", "c">>

\* another one
OtherLongName == <<"y", "y", "y", "y", "y", "y", "y", "y", "y", "y", "y", "y",
                   "y", "y", "a", "b", "c">>

CandPool == { Cand(Some(<<"A", "B">>), Some(1)),
              Cand(Some(<<"a", "b", " ", "2">>), Some(2)),
              Cand(Some(<<"a", "b", "b", "b", "b", "b", "b">>), Some(3)),
              Cand(Some(<<"x", "y", " ", "a">>), Some(4)),
              Cand(None, Some(5)),
              Cand(Some(<<"2", " ", "a", "b">>), Some(6)),
              Cand(Some(<<"x", "y", " ", "a", "b">>), Some(7)),
              Cand(Some(<<"z", "w", " ", "a">>), Some(8)),
              Cand(Some(<<"a", "b">>), None),
              Cand(Some(LongName), Some(10)),
              Cand(Some(OtherLongName), Some(11)) }

RECURSIVE SeqsUpTo(_, _)
SeqsUpTo(S, n) ==
    IF n = 0 THEN {<<>>}
    ELSE SeqsUpTo(S, n - 1)
         \cup {Append(q, x) : q \in {p \in SeqsUpTo(S, n - 1) : Len(p) = n - 1},
                              x \in S}

SteamResponses ==
    {[out |-> o, cands |-> <<>>] : o \in {"nojson", "falsy", "notlist"}}
    \cup {[out |-> "json", cands |-> q] : q \in SeqsUpTo(CandPool, MaxCands)}

\* search_app_id_by_name is called with a query, and requests.get returns
\* an answer (lines 22-23)
SteamInit ==
    /\ RawgIdle /\ SimIdle /\ EstIdle /\ AuxIdle("")
    /\ st_pc = "called"
    /\ st_name \in SteamNames
    /\ st_response \in {Some(resp) : resp \in SteamResponses}
    /\ st_result = None

\* the body of search_app_id_by_name, lines 25-79
Search ==
    /\ st_pc = "called"
    /\ st_pc' = "done"
    /\ st_result' = Some(search_app_id_by_name(st_name, st_response[1]))
    /\ UNCHANGED <<st_name, st_response, rawg_vars, sim_vars, est_vars, aux_vars>>

SteamNext == Search

SteamSpec == SteamInit /\ [][SteamNext]_vars

-----------------------------------------------------------------------------
(* utils.similarity on all pairs of short strings *)

SimAlphabet == {"a", "b", "c"}

SimStrings == SeqsUpTo(SimAlphabet, MaxLen)

\* similarity is about to be applied to a pair, in both orders
SimInit ==
    /\ RawgIdle /\ SteamIdle /\ EstIdle /\ AuxIdle("")
    /\ sim_pc = "called"
    /\ sim_a \in SimStrings
    /\ sim_b \in SimStrings
    /\ sim_ab = <<0, 0>>
    /\ sim_ba = <<0, 0>>

Compare ==
    /\ sim_pc = "called"
    /\ sim_pc' = "done"
    /\ sim_ab' = similarity(sim_a, sim_b)
    /\ sim_ba' = similarity(sim_b, sim_a)
    /\ UNCHANGED <<sim_a, sim_b, rawg_vars, steam_vars, est_vars, aux_vars>>

SimNext == Compare

SimSpec == SimInit /\ [][SimNext]_vars

-----------------------------------------------------------------------------
(* rawg_api.estimate_hltb_from_rawg.  A ratio is an integer number of      *)
(* hundredths, a duration an integer number of hundredths (before          *)
(* rounding) or tenths (after rounding) of an hour.                        *)

\* round(x, 1) of the non-negative duration h hundredths, in tenths: Python
\* rounds a value exactly halfway between two tenths to the even one
Round1(h) ==
    IF h % 10 < 5 THEN h \div 10
    ELSE IF h % 10 > 5 THEN (h \div 10) + 1
    ELSE IF (h \div 10) % 2 = 0 THEN h \div 10
    ELSE (h \div 10) + 1

\* lines 182-183
LowerAll(names) == [i \in 1..Len(names) |-> Lower(names[i])]

\* any(w in names for w in words)
AnyIn(words, names) == \E i \in 1..Len(names) : names[i] \in words

ShortClampNever(playtime) == None

ShortClampSteep(playtime) ==
    IF playtime <= 2 THEN Some(Round1(playtime * 120))
    ELSE IF playtime <= 3 THEN Some(Round1(playtime * 150))
    ELSE IF playtime <= 5 THEN Some(Round1(playtime * 300))
    ELSE None

\* lines 189-194: the value returned for a short game, None when the
\* function goes on
ShortClamp(playtime) ==
    IF playtime <= 2 THEN Some(Round1(playtime * 120))
    ELSE IF playtime <= 3 THEN Some(Round1(playtime * 150))
    ELSE IF playtime <= 5 THEN Some(Round1(playtime * 200))
    ELSE None

GenreRulesActionFirst ==
    << [names |-> {<<"a", "c", "t", "i", "o", "n">>}, ratio |-> 220],
       [names |-> {<<"r", "p", "g">>, <<"r", "o", "l", "e", "-", "p", "l", "a", "y", "i", "n", "g">>}, ratio |-> 500],
       [names |-> {<<"s", "t", "r", "a", "t", "e", "g", "y">>}, ratio |-> 300],
       [names |-> {<<"a", "d", "v", "e", "n", "t", "u", "r", "e">>}, ratio |-> 250],
       [names |-> {<<"i", "n", "d", "i", "e">>}, ratio |-> 180],
       [names |-> {<<"p", "l", "a", "t", "f", "o", "r", "m", "e", "r">>}, ratio |-> 150],
       [names |-> {<<"r", "o", "g", "u", "e", "l", "i", "k", "e">>}, ratio |-> 250] >>

\* lines 197-210, in the order of the elif chain
GenreRules ==
    << [names |-> {<<"r", "p", "g">>, <<"r", "o", "l", "e", "-", "p", "l", "a", "y", "i", "n", "g">>}, ratio |-> 500],
       [names |-> {<<"s", "t", "r", "a", "t", "e", "g", "y">>}, ratio |-> 300],
       [names |-> {<<"a", "d", "v", "e", "n", "t", "u", "r", "e">>}, ratio |-> 250],
       [names |-> {<<"a", "c", "t", "i", "o", "n">>}, ratio |-> 220],
       [names |-> {<<"i", "n", "d", "i", "e">>}, ratio |-> 180],
       [names |-> {<<"p", "l", "a", "t", "f", "o", "r", "m", "e", "r">>}, ratio |-> 150],
       [names |-> {<<"r", "o", "g", "u", "e", "l", "i", "k", "e">>}, ratio |-> 250] >>

\* line 186 and lines 197-210, from rule i on
RECURSIVE BaseRatioFrom(_, _)
BaseRatioFrom(genres, i) ==
    IF i > Len(GenreRules) THEN 250
    ELSE IF AnyIn(GenreRules[i].names, genres) THEN GenreRules[i].ratio
    ELSE BaseRatioFrom(genres, i + 1)

BaseRatio(genres) == BaseRatioFrom(genres, 1)

\* line 213
LongTags == { <<"o", "p", "e", "n", " ", "w", "o", "r", "l", "d">>,
              <<"s", "a", "n", "d", "b", "o", "x">>,
              <<"c", "r", "a", "f", "t", "i", "n", "g">>,
              <<"e", "x", "p", "l", "o", "r", "a", "t", "i", "o", "n">>,
              <<"b", "a", "s", "e", " ", "b", "u", "i", "l", "d", "i", "n", "g">> }

\* line 215
ShortTags == { <<"s", "u", "r", "v", "i", "v", "a", "l">>,
               <<"h", "o", "r", "r", "o", "r">> }

\* line 219
FloorGenres == { <<"s", "i", "m", "u", "l", "a", "t", "i", "o", "n">> }

\* line 222
FloorTags == { <<"a", "u", "t", "o", "m", "a", "t", "i", "o", "n">>,
               <<"f", "a", "c", "t", "o", "r", "y">>,
               <<"m", "a", "n", "a", "g", "e", "m", "e", "n", "t">> }

TagAdjustBoth(ratio, tags) ==
    LET r == IF AnyIn(LongTags, tags) THEN (ratio * 35) \div 10 ELSE ratio
    IN  IF AnyIn(ShortTags, tags) THEN (r * 12) \div 10 ELSE r

\* lines 213-216
TagAdjust(ratio, tags) ==
    IF AnyIn(LongTags, tags) THEN (ratio * 35) \div 10
    ELSE IF AnyIn(ShortTags, tags) THEN (ratio * 12) \div 10
    ELSE ratio

Max(x, y) == IF x >= y THEN x ELSE y

FloorsForced(ratio, genres, tags) ==
    IF AnyIn(FloorTags, tags) THEN 400
    ELSE IF AnyIn(FloorGenres, genres) THEN 350
    ELSE ratio

\* lines 219-223
Floors(ratio, genres, tags) ==
    LET r == IF AnyIn(FloorGenres, genres) THEN Max(ratio, 350) ELSE ratio
    IN  IF AnyIn(FloorTags, tags) THEN Max(r, 400) ELSE r

\* lines 197-223, genres and tags in lower case
FinalRatio(genres, tags) ==
    Floors(TagAdjust(BaseRatio(genres), tags), genres, tags)

estimate_hltb_negative_only(rawg_playtime, genres, tags) ==
    IF IsNone(rawg_playtime) THEN None
    ELSE IF rawg_playtime[1] < 0 THEN None
    ELSE IF ShortClamp(rawg_playtime[1]) # None
    THEN ShortClamp(rawg_playtime[1])
    ELSE Some(Round1(rawg_playtime[1]
                     * FinalRatio(LowerAll(genres), LowerAll(tags))))

\* estimate_hltb_from_rawg(rawg_playtime, genres, tags), in tenths of an hour
estimate_hltb_from_rawg(rawg_playtime, genres, tags) ==
    IF IsNone(rawg_playtime) THEN None
    ELSE IF rawg_playtime[1] <= 0 THEN None
    ELSE IF ShortClamp(rawg_playtime[1]) # None
    THEN ShortClamp(rawg_playtime[1])
    ELSE Some(Round1(rawg_playtime[1]
                     * FinalRatio(LowerAll(genres), LowerAll(tags))))

\* playtimes, genres and tags handed to the estimator
Playtimes == {None} \cup {Some(p) : p \in -1..MaxPlaytime}

GenrePool == { <<"R", "P", "G">>,
               <<"R", "o", "l", "e", "-", "P", "l", "a", "y", "i", "n", "g">>,
               <<"S", "t", "r", "a", "t", "e", "g", "y">>,
               <<"a", "d", "v", "e", "n", "t", "u", "r", "e">>,
               <<"A", "c", "t", "i", "o", "n">>,
               <<"i", "n", "d", "i", "e">>,
               <<"P", "l", "a", "t", "f", "o", "r", "m", "e", "r">>,
               <<"r", "o", "g", "u", "e", "l", "i", "k", "e">>,
               <<"S", "i", "m", "u", "l", "a", "t", "i", "o", "n">>,
               <<"P", "u", "z", "z", "l", "e">> }

TagPool == { <<"O", "p", "e", "n", " ", "W", "o", "r", "l", "d">>,
             <<"S", "a", "n", "d", "b", "o", "x">>,
             <<"c", "r", "a", "f", "t", "i", "n", "g">>,
             <<"E", "x", "p", "l", "o", "r", "a", "t", "i", "o", "n">>,
             <<"b", "a", "s", "e", " ", "b", "u", "i", "l", "d", "i", "n", "g">>,
             <<"S", "u", "r", "v", "i", "v", "a", "l">>,
             <<"h", "o", "r", "r", "o", "r">>,
             <<"A", "u", "t", "o", "m", "a", "t", "i", "o", "n">>,
             <<"f", "a", "c", "t", "o", "r", "y">>,
             <<"M", "a", "n", "a", "g", "e", "m", "e", "n", "t">>,
           <<"C", "o", "o", "p">> }

\* estimate_hltb_from_rawg is called
EstInit ==
    /\ RawgIdle /\ SteamIdle /\ SimIdle /\ AuxIdle("")
    /\ est_pc = "called"
    /\ est_playtime \in Playtimes
    /\ est_genres \in SeqsUpTo(GenrePool, MaxLabels)
    /\ est_tags \in SeqsUpTo(TagPool, MaxLabels - Len(est_genres))
    /\ est_result = None

\* the body of estimate_hltb_from_rawg, lines 179-225
Estimate ==
    /\ est_pc = "called"
    /\ est_pc' = "done"
    /\ est_result' = estimate_hltb_from_rawg(est_playtime, est_genres, est_tags)
    /\ UNCHANGED <<est_playtime, est_genres, est_tags,
                   rawg_vars, steam_vars, sim_vars, aux_vars>>

EstNext == Estimate

EstSpec == EstInit /\ [][EstNext]_vars

-----------------------------------------------------------------------------
(* utils.is_sequel called on its own *)

MaxTitleLen == 4

\* letters of the roman numerals in both cases, another letter, digits, a
\* space and an underscore
SeqAlphabet == {"i", "I", "v", "x", "0", "1", "2", " ", "_"}

\* is_sequel(title) is called
SeqInit ==
    /\ RawgIdle /\ SteamIdle /\ SimIdle /\ EstIdle /\ AuxIdle("is_sequel")
    /\ seq_pc = "called"
    /\ seq_title \in SeqsUpTo(SeqAlphabet, MaxTitleLen)
    /\ seq_result = FALSE

\* the body of is_sequel, lines 94-104
Classify ==
    /\ seq_pc = "called"
    /\ seq_pc' = "done"
    /\ seq_result' = is_sequel(seq_title)
    /\ UNCHANGED <<seq_title, pg_vars, nt_vars, ex_vars, dt_vars,
                   rawg_vars, steam_vars, sim_vars, est_vars>>

SeqSpec == SeqInit /\ [][Classify]_vars

-----------------------------------------------------------------------------
(* notion_api.get_app_id_for_page *)

\* a page: page["properties"].get("ID") is None (no such property) or
\* Some(number), the number being None when the field is empty;
\* page["properties"].get("Name") is None or an object with or without the
\* key "title", a list of the plain_text of its segments
Page(id, name) == [id |-> id, name |-> name]

NameProp(has_title, title) == [has_title |-> has_title, title |-> title]

\* line 41: an identifier of 0 is falsy, as is an empty field
IdPresent(page) ==
    /\ ~IsNone(page.id)
    /\ ~IsNone(page.id[1])
    /\ page.id[1][1] # 0

\* line 45: "title" in name_prop and len(name_prop["title"]) > 0
TitlePresent(page) ==
    /\ ~IsNone(page.name)
    /\ page.name[1].has_title
    /\ Len(page.name[1].title) > 0

\* lines 40-49: the value returned (or the raise) and the titles searched
get_app_id_ignoring_id(page, resp) ==
    IF TitlePresent(page)
    THEN LET found == search_app_id_by_name(page.name[1].title[1], resp)
         IN  [result |-> IF found.kind = "id" /\ found.appid = 0
                         THEN Unresolved ELSE found,
              searched |-> <<page.name[1].title[1]>>]
    ELSE [result |-> Unresolved, searched |-> <<>>]

get_app_id_for_page(page, resp) ==
    IF IdPresent(page)
    THEN [result |-> Resolved(page.id[1][1]), searched |-> <<>>]
    ELSE IF TitlePresent(page)
    THEN LET found == search_app_id_by_name(page.name[1].title[1], resp)
         IN  [result |-> IF found.kind = "id" /\ found.appid = 0
                         THEN Unresolved ELSE found,
              searched |-> <<page.name[1].title[1]>>]
    ELSE [result |-> Unresolved, searched |-> <<>>]

PageIds == {None, Some(None), Some(Some(0)), Some(Some(7))}

PageNames ==
    { None,
      Some(NameProp(FALSE, <<>>)),
      Some(NameProp(TRUE, <<>>)),
      Some(NameProp(TRUE, << <<"a", "b">> >>)),
      Some(NameProp(TRUE, << <<"a", "b", " ", "2">> >>)),
      Some(NameProp(TRUE, << <<"a", "b">>, <<" ", "2">> >>)) }

Pages == {Page(id, name) : id \in PageIds, name \in PageNames}

\* get_app_id_for_page(page) is called; the identity catalog would give
\* pg_response if asked
PageInit ==
    /\ RawgIdle /\ SteamIdle /\ SimIdle /\ EstIdle
    /\ AuxIdle("get_app_id_for_page")
    /\ pg_pc = "called"
    /\ pg_page \in {Some(page) : page \in Pages}
    /\ pg_response \in {Some(resp) : resp \in SteamResponses}
    /\ pg_searches = <<>>
    /\ pg_result = None

\* the body of get_app_id_for_page, lines 40-49
Lookup ==
    /\ pg_pc = "called"
    /\ pg_pc' = "done"
    /\ pg_result' = Some(get_app_id_for_page(pg_page[1], pg_response[1]).result)
    /\ pg_searches' = get_app_id_for_page(pg_page[1], pg_response[1]).searched
    /\ UNCHANGED <<pg_page, pg_response, seq_vars, nt_vars, ex_vars, dt_vars,
                   rawg_vars, steam_vars, sim_vars, est_vars>>

PageSpec == PageInit /\ [][Lookup]_vars

-----------------------------------------------------------------------------
(* notion_api.get_notion_pages *)

\* requests of one get_notion_pages call the model follows
MaxPosts == 3

\* the answer of the page source to one query: "results", "has_more"
\* ("true", "false", or "absent" when the key is missing) and "next_cursor"
\* ("null" when there is none)
Answer(results, has_more, next_cursor) ==
    [results |-> results, has_more |-> has_more, next_cursor |-> next_cursor]

PageAnswers ==
    {Answer(r, "true", c) : r \in {<<>>, <<"p">>, <<"q", "r">>},
                            c \in {"c1", "c2"}}
    \cup {Answer(r, h, "null") : r \in {<<>>, <<"p">>, <<"q", "r">>},
                                 h \in {"false", "absent"}}

\* line 68: response.get("has_more")
MorePagesUnlessFalse(resp) == resp.has_more # "false"

MorePages(resp) == resp.has_more = "true"

\* lines 60-61: all_results = [], payload = {}
NotionInit ==
    /\ RawgIdle /\ SteamIdle /\ SimIdle /\ EstIdle
    /\ AuxIdle("get_notion_pages")
    /\ nt_pc = "post"
    /\ nt_payload = None
    /\ nt_sent = <<>>
    /\ nt_received = <<>>
    /\ nt_results = <<>>

\* one pass of the loop, lines 64-71: the request with the payload, the
\* answer, its results appended, and the cursor for the next pass or the
\* end of the loop
Post(resp) ==
    /\ nt_pc = "post"
    /\ Len(nt_sent) < MaxPosts
    /\ nt_sent' = Append(nt_sent, nt_payload)
    /\ nt_received' = Append(nt_received, resp)
    /\ nt_results' = nt_results \o resp.results
    /\ IF MorePages(resp)
       THEN /\ nt_payload' = Some(resp.next_cursor)
            /\ nt_pc' = "post"
       ELSE /\ nt_payload' = nt_payload
            /\ nt_pc' = "done"
    /\ UNCHANGED <<seq_vars, pg_vars, ex_vars, dt_vars,
                   rawg_vars, steam_vars, sim_vars, est_vars>>

NotionSpec == NotionInit /\ [][\E resp \in PageAnswers : Post(resp)]_vars

-----------------------------------------------------------------------------
(* steam_api.get_steam_game_details: the part that decides the enrichment  *)
(* (lines 90-124); price, genres, rating and images are left out           *)

\* the answer of the identity catalog's details endpoint for the app:
\* "success", the "name" and release_date.coming_soon ("true", "false", or
\* "absent" when the key or release_date is missing)
Details(success, name, coming_soon) ==
    [success |-> success, name |-> name, coming_soon |-> coming_soon]

DetailAnswers ==
    {Details(FALSE, <<>>, "absent")}
    \cup {Details(TRUE, n, c) : n \in Titles, c \in {"true", "false", "absent"}}

\* line 104: released = not info.get("release_date", {}).get("coming_soon", False)
ReleasedAlways(info) == TRUE

Released(info) == info.coming_soon # "true"

\* the genre and tag names of the enrichment answers, spelled out
Spelling ==
    "Action" :> <<"A", "c", "t", "i", "o", "n">>
    @@ "Coop" :> <<"C", "o", "o", "p">>

Spelled(names) == [i \in 1..Len(names) |-> Spelling[names[i]]]

\* line 96: return None
NoDetails == [found |-> FALSE, released |-> FALSE, hltb_time |-> None]

\* lines 135-146: the dictionary returned
GameData(released, hltb_time) ==
    [found |-> TRUE, released |-> released, hltb_time |-> hltb_time]

\* get_steam_game_details(app_id) is called in a fresh process; the
\* details endpoint would give dt_answer
DetInit ==
    /\ RawgIdle /\ SteamIdle /\ SimIdle /\ EstIdle
    /\ AuxIdle("get_steam_game_details")
    /\ dt_pc = "called"
    /\ dt_app_id = 7
    /\ dt_answer \in {Some(a) : a \in DetailAnswers}
    /\ dt_calls = <<>>
    /\ dt_result = None

\* lines 90-120 and 123-124: up to the call of get_rawg_data, or to the
\* return when there is none
Inspect ==
    /\ dt_pc = "called"
    /\ IF ~dt_answer[1].success
       THEN /\ dt_pc' = "done"
            /\ dt_result' = Some(NoDetails)
            /\ dt_calls' = dt_calls
       ELSE IF Released(dt_answer[1])
       THEN /\ dt_pc' = "rawg"
            /\ dt_result' = dt_result
            /\ dt_calls' = Append(dt_calls, <<dt_answer[1].name, Some(dt_app_id)>>)
       ELSE /\ dt_pc' = "done"
            /\ dt_result' = Some(GameData(FALSE, None))
            /\ dt_calls' = dt_calls
    /\ UNCHANGED <<dt_app_id, dt_answer, seq_vars, pg_vars, nt_vars, ex_vars,
                   rawg_vars, steam_vars, sim_vars, est_vars>>

\* line 121: get_rawg_data(name, app_id)
DetCall ==
    /\ dt_pc = "rawg"
    /\ pc = "idle"
    /\ Call(dt_calls[1][1], dt_calls[1][2])

\* line 122 and lines 135-146: the estimate from what get_rawg_data
\* returned; its exception leaves get_steam_game_details
Finish ==
    /\ dt_pc = "rawg"
    /\ pc \in {"returned", "raised"}
    /\ IF pc = "returned"
       THEN /\ dt_pc' = "done"
            /\ dt_result' =
                  Some(GameData(TRUE,
                                estimate_hltb_from_rawg(result[1].playtime,
                                                        Spelled(result[1].genres),
                                                        Spelled(result[1].tags))))
       ELSE /\ dt_pc' = "raised"
            /\ dt_result' = dt_result
    /\ UNCHANGED <<dt_app_id, dt_answer, dt_calls, seq_vars, pg_vars, nt_vars,
                   ex_vars, rawg_vars, steam_vars, sim_vars, est_vars>>

DetNext ==
    \/ Inspect
    \/ DetCall
    \/ \E resp \in Responses : Request(resp)
    \/ Sleep
    \/ Evaluate
    \/ Finish

DetSpec == DetInit /\ [][DetNext]_vars

-----------------------------------------------------------------------------
(* The export loop, as the two scripts of the repository write it:         *)
(* src/src/export_data.py (lines 548-590) and src/export_data.py (lines    *)
(* 324-363)                                                                *)

\* pages of one run the model follows
MaxPages == 2

Scripts == {"src/src/export_data.py", "src/export_data.py"}

\* a page of the run: its Platform select ("none" when empty), its ID and
\* Name properties, what the identity catalog would answer to a search for
\* it, and whether the details lookup would return data
ExportPage(platform, page, resp, details) ==
    [platform |-> platform, page |-> page, resp |-> resp, details |-> details]

ExportPages ==
    {ExportPage(pf, Page(id, name), resp, d) :
        pf \in {"Steam", "Epic", "none"},
        id \in {None, Some(Some(7))},
        name \in {None, Some(NameProp(TRUE, << <<"a", "b">> >>))},
        resp \in {[out |-> "falsy", cands |-> <<>>],
                  [out |-> "json", cands |-> <<Cand(Some(<<"A", "B">>), Some(1))>>]},
        d \in BOOLEAN}

\* the requests of get_app_id_for_page(page) for page i
SearchEvents(p, i) ==
    IF get_app_id_for_page(p.page, p.resp).searched = <<>> THEN <<>>
    ELSE <<[page |-> i, what |-> "search"]>>

\* the rest of an iteration once the page is known to be a Steam page and
\* get_app_id_for_page has returned: nothing without an identifier, the
\* details lookup, and the write when it returned data
AfterLookup(p, i) ==
    IF get_app_id_for_page(p.page, p.resp).result.kind # "id" THEN <<>>
    ELSE <<[page |-> i, what |-> "details"]>>
         \o (IF p.details THEN <<[page |-> i, what |-> "write"]>> ELSE <<>>)

\* src/src/export_data.py lines 552-590: the platform test, then
\* get_app_id_for_page
EventsPlatformFirst(p, i) ==
    IF p.platform # "Steam" THEN <<>>
    ELSE SearchEvents(p, i) \o AfterLookup(p, i)

\* src/export_data.py lines 328-363: get_app_id_for_page, then the platform
\* test
EventsLookupFirst(p, i) ==
    SearchEvents(p, i)
    \o (IF p.platform # "Steam" THEN <<>> ELSE AfterLookup(p, i))

\* pages = get_notion_pages(), in one of the two scripts
ExportInit ==
    /\ RawgIdle /\ SteamIdle /\ SimIdle /\ EstIdle /\ AuxIdle("main")
    /\ ex_variant \in Scripts
    /\ ex_pages \in SeqsUpTo(ExportPages, MaxPages)
    /\ ex_pc = IF ex_pages = <<>> THEN "done" ELSE "loop"
    /\ ex_index = 0
    /\ ex_log = <<>>

\* one iteration of "for page in pages"
Visit ==
    /\ ex_pc = "loop"
    /\ ex_index' = ex_index + 1
    /\ ex_pc' = IF ex_index + 1 = Len(ex_pages) THEN "done" ELSE "loop"
    /\ ex_log' = ex_log \o (IF ex_variant = "src/export_data.py"
                             THEN EventsLookupFirst(ex_pages[ex_index + 1],
                                                    ex_index + 1)
                             ELSE EventsPlatformFirst(ex_pages[ex_index + 1],
                                                      ex_index + 1))
    /\ UNCHANGED <<ex_variant, ex_pages, seq_vars, pg_vars, nt_vars, dt_vars,
                   rawg_vars, steam_vars, sim_vars, est_vars>>

ExportSpec == ExportInit /\ [][Visit]_vars

-----------------------------------------------------------------------------
(* Properties of the enrichment resolver *)

\* the call in progress, as the pair of its arguments
Pair == <<game_name, steam_app_id>>

\* the call in progress missed the cache and has ended
Ended == pc \in {"returned", "raised"} /\ searches # <<>>

\* the search strings of the four strategies in their fixed order, those of
\* the strategies that do not apply left out
Plan ==
    <<game_name>>
    \o (IF sanitize_title(game_name) # game_name
        THEN <<sanitize_title(game_name)>> ELSE <<>>)
    \o <<ReplaceChar(sanitize_title(game_name), " ", "-")>>
    \o (IF ~IsNone(steam_app_id) /\ steam_app_id[1] # 0
        THEN <<<<"s", "t", "e", "a", "m", " ">> \o IdStr(steam_app_id)>>
        ELSE <<>>)

IsPrefix(p, q) == Len(p) <= Len(q) /\ p = SubSeq(q, 1, Len(p))

\* the entries of the answer in res
Items == res[1].results.items

\* res holds a non-empty list of games
GamesAnswered == ListOfGames(res) /\ Len(Items) > 0

\* entry i of res has the highest score against the original title and is the
\* first entry to have it
IsFirstBest(i) ==
    /\ \A j \in 1..Len(Items) :
          RatioGE(ScoreOf(res, i, game_name), ScoreOf(res, j, game_name))
    /\ \A j \in 1..(i - 1) :
          RatioGT(ScoreOf(res, i, game_name), ScoreOf(res, j, game_name))

\* C1: once a get_rawg_data(title, id) call has returned a record taken from
\* an accepted match, every later call with the same (title, id) returns at
\* once, having issued no request and no query, with that same record.
C1_CacheHitAfterMatch ==
    (ncalls > 0 /\ Pair \in DOMAIN accepted) =>
        /\ pc = "returned"
        /\ nrequests = 0
        /\ searches = <<>>
        /\ result = Some(accepted[Pair])

C1_Witness ==
    /\ ncalls = 2
    /\ Pair \in DOMAIN accepted
    /\ pc = "returned"
    /\ nrequests = 0
    /\ result = Some(accepted[Pair])

\* C2 as stated: every record get_rawg_data returns, the empty record
\* included, is stored in the cache under its key, so that at most one call
\* per (title, id) pair issues network requests.
C2_EveryRecordCached ==
    /\ pc = "returned" =>
          /\ CacheKey(game_name, steam_app_id) \in DOMAIN RAWG_CACHE
          /\ result = Some(RAWG_CACHE[CacheKey(game_name, steam_app_id)])
    /\ Pair \in called => nrequests = 0

\* C2 amended: a record returned from an accepted match is stored in the
\* cache under its key; the empty record returned when all strategies fail is
\* not stored; only a pair none of whose earlier calls returned from an
\* accepted match issues requests again.
C2_OnlyMatchesCached ==
    /\ (pc = "returned" /\ matched) =>
          /\ CacheKey(game_name, steam_app_id) \in DOMAIN RAWG_CACHE
          /\ result = Some(RAWG_CACHE[CacheKey(game_name, steam_app_id)])
    /\ (pc = "returned" /\ ~matched /\ searches # <<>>) =>
          /\ result = Some([playtime |-> None, genres |-> <<>>, tags |-> <<>>])
          /\ CacheKey(game_name, steam_app_id) \notin DOMAIN RAWG_CACHE
    /\ (Pair \in called /\ nrequests > 0) => Pair \notin DOMAIN accepted

C2_Witness ==
    /\ ncalls = 2
    /\ Pair \in called
    /\ pc = "returned"
    /\ ~matched
    /\ nrequests > 0
    /\ CacheKey(game_name, steam_app_id) \notin DOMAIN RAWG_CACHE

\* C3: on a cache miss the queries follow the fixed order raw title,
\* sanitized title, slug, "steam <id>"; the first strategy whose answer holds
\* an accepted match gives the returned record and the cache entry, and no
\* later strategy is queried: a match of strategy 2 after strategy 1 failed
\* leaves exactly the two queries raw title, sanitized title.
C3_StrategyOrder ==
    /\ IsPrefix(searches, Plan)
    /\ searches # <<>> => search_value = searches[Len(searches)]
    /\ nrequests <= 3 * Len(searches)
    /\ (pc = "returned" /\ matched) =>
          /\ GamesAnswered
          /\ \E i \in 1..Len(Items) :
                /\ RatioGE(ScoreOf(res, i, game_name), <<45, 100>>)
                /\ result = Some(extract_rawg_fields(Items[i]))
          /\ RAWG_CACHE[CacheKey(game_name, steam_app_id)] = result[1]
          /\ strategy = 2 => searches = <<game_name, sanitize_title(game_name)>>

C3_Witness ==
    /\ pc = "returned"
    /\ matched
    /\ strategy = 2
    /\ nrequests = 4
    /\ searches = <<game_name, sanitize_title(game_name)>>
    /\ result = Some(extract_rawg_fields(GameAB))

\* requests issued so far by the query_rawg call in progress
QueryRequests ==
    CASE pc = "sleep" -> attempt + 1
      [] pc = "query_done" /\ ~IsNone(res) -> attempt + 1
      [] OTHER -> attempt

\* C4: query_rawg issues at most 3 requests per search string and never
\* raises: a request that throws, a body that is not JSON and a falsy JSON
\* value each use up one attempt; the first non-empty JSON value (an object
\* with an empty result list included) ends the helper at once with that
\* value; after 3 failed attempts it returns no data.
C4_RetryHelper ==
    /\ strategy > 0 => QueryRequests <= 3
    /\ pc = "request" => attempt < 3
    /\ pc = "sleep" => last_attempt \in {"throw", "nojson", "falsy"}
    /\ pc = "query_done" =>
          IF IsNone(res)
          THEN attempt = 3 /\ last_attempt = "none"
          ELSE /\ last_attempt = "data"
               /\ Truthy(res[1])
               /\ attempt < 3

C4_Witness ==
    /\ pc = "query_done"
    /\ attempt = 2
    /\ res = Some(AObj(RList(<<>>)))

\* C5 as stated: backoff delays are taken between attempts only, the base
\* delay doubling from 1 s; a query that used up its 3 attempts has slept
\* exactly 2 times when it returns no data.
C5_SleepsBetweenAttempts ==
    /\ \A i \in 1..Len(delays) : delays[i] = Pow2(i - 1)
    /\ (pc = "query_done" /\ IsNone(res)) => delays = <<1, 2>>

\* C6 as stated: no answer that parses as JSON makes get_rawg_data raise;
\* every call ends in a record value.
C6_NeverRaises == pc # "raised"

\* C8: if every strategy fails (no data, an empty result list, or no
\* candidate scoring at least 0.45) the call has queried every strategy that
\* applies and returns exactly the empty record, without raising.
C8_AllFailEmptyRecord ==
    (Ended /\ clean) =>
        /\ pc = "returned"
        /\ searches = Plan
        /\ result = Some([playtime |-> None, genres |-> <<>>, tags |-> <<>>])

C8_Witness ==
    /\ Ended
    /\ clean
    /\ Len(searches) = 4
    /\ res = Some(AObj(RList(<<GameFar>>)))
    /\ result = Some([playtime |-> None, genres |-> <<>>, tags |-> <<>>])

\* C9: in every strategy the entries are scored against the original title;
\* the entry with the highest score, the first one on ties, is accepted iff
\* its score is at least 0.45, and the call then returns its record;
\* otherwise the strategy yields no match.
C9_AcceptanceFilter ==
    [][(pc = "query_done" /\ GamesAnswered) =>
          \E i \in 1..Len(Items) :
             /\ IsFirstBest(i)
             /\ IF RatioGE(ScoreOf(res, i, game_name), <<45, 100>>)
                THEN /\ pc' = "returned"
                     /\ matched'
                     /\ result' = Some(extract_rawg_fields(Items[i]))
                ELSE /\ ~matched'
                     /\ pc' \in {"request", "returned"}
                     /\ RAWG_CACHE' = RAWG_CACHE]_vars

C9_Witness ==
    /\ pc = "returned"
    /\ strategy = 4
    /\ res = Some(AObj(RList(<<GameFar, GameAb>>)))
    /\ result = Some(extract_rawg_fields(GameAb))

\* C10: strategy 2 issues a request only if sanitize_title(title) differs
\* from the raw title; when they are equal the query after the raw title is
\* the slug of strategy 3.
C10_SanitizedOnlyIfDifferent ==
    /\ strategy = 2 => sanitize_title(game_name) # game_name
    /\ (sanitize_title(game_name) = game_name /\ Len(searches) >= 2) =>
          /\ strategy >= 3
          /\ searches[2] = ReplaceChar(game_name, " ", "-")

C10_Witness ==
    /\ sanitize_title(game_name) = game_name
    /\ pc = "sleep"
    /\ strategy = 3
    /\ searches = <<game_name, ReplaceChar(game_name, " ", "-")>>
    /\ search_value # game_name

-----------------------------------------------------------------------------
(* Properties of the identity resolver *)

\* the candidates of the answer the resolver was given
Candidates == st_response[1].cands

\* C7 as stated: search_app_id_by_name never returns an identifier whose
\* candidate scores below 0.3 against the query, on the exact-match and
\* prefix-match paths and for a query whose normalized form is empty as well.
C7_NeverBelowThreshold ==
    (st_pc = "done" /\ st_result[1].kind = "id") =>
        \A i \in 1..Len(Candidates) :
            Candidates[i].appid = Some(st_result[1].appid) =>
                RatioGE(similarity(normalize(Candidates[i].name),
                                   normalize(Some(st_name))),
                        <<3, 10>>)

-----------------------------------------------------------------------------
(* Properties of the identity resolver, stage by stage *)

\* the call returned or raised on a non-empty list of candidates
Listed ==
    /\ st_pc = "done"
    /\ st_response[1].out = "json"
    /\ st_response[1].cands # <<>>

\* every candidate of the answer has the shape {name, appid}
AllCandidates ==
    \A i \in 1..Len(Candidates) :
        ~IsNone(Candidates[i].name) /\ ~IsNone(Candidates[i].appid)

Least(S) == CHOOSE i \in S : \A j \in S : i <= j

IdOf(i) == [kind |-> "id", appid |-> Candidates[i].appid[1]]

NoId == [kind |-> "none", appid |-> 0]

ExactSet ==
    {i \in 1..Len(Candidates) : Lower(Candidates[i].name[1]) = Lower(st_name)}

PrefixSet ==
    {i \in 1..Len(Candidates) :
        LET n == normalize(Candidates[i].name)
            q == normalize(Some(st_name))
        IN  Len(q) <= Len(n) /\ SubSeq(n, 1, Len(q)) = q}

\* the call reached the similarity stage
SimilarityStage ==
    Listed /\ AllCandidates /\ ExactSet = {} /\ PrefixSet = {}

KeptSet ==
    {i \in 1..Len(Candidates) :
        /\ is_sequel(st_name) \/ ~is_sequel(Candidates[i].name[1])
        /\ \/ IsSubstring(normalize(Some(st_name)), normalize(Candidates[i].name))
           \/ IsSubstring(normalize(Candidates[i].name), normalize(Some(st_name)))}

ScoredSet == IF KeptSet = {} THEN 1..Len(Candidates) ELSE KeptSet

Score(i) == similarity(normalize(Some(st_name)), normalize(Candidates[i].name))

Scores == [i \in ScoredSet |-> Score(i)]

TopOf(sc) == {i \in DOMAIN sc : \A j \in DOMAIN sc : RatioGE(sc[i], sc[j])}

TopSet == TopOf(Scores)

\* C11: when some candidate's name equals the query without regard to case,
\* search_app_id_by_name returns the identifier of the first such candidate,
\* wherever it stands in the list and whatever candidates stand around it.
C11_ExactShortCircuits ==
    (Listed /\ AllCandidates /\ ExactSet # {}) =>
        st_result[1] = IdOf(Least(ExactSet))

\* an exact match that stands behind a prefix match which is a sequel
C11_Witness ==
    /\ Listed /\ AllCandidates /\ ExactSet # {}
    /\ Least(ExactSet) > 1
    /\ 1 \in PrefixSet
    /\ is_sequel(Candidates[1].name[1])
    /\ Candidates[1].appid # Candidates[Least(ExactSet)].appid
    /\ st_result[1] = IdOf(Least(ExactSet))

\* C12: with no exact match and some candidate whose normalized name starts
\* with the normalized query, the identifier of the first such candidate in
\* list order is returned; neither the sequel filter nor the 0.3 threshold
\* applies.
C12_PrefixFirst ==
    (Listed /\ AllCandidates /\ ExactSet = {} /\ PrefixSet # {}) =>
        st_result[1] = IdOf(Least(PrefixSet))

\* the first prefix match is a sequel of a query that is none,
\* and a later prefix match is no sequel
C12_Witness ==
    /\ Listed /\ AllCandidates /\ ExactSet = {} /\ PrefixSet # {}
    /\ ~is_sequel(st_name)
    /\ is_sequel(Candidates[Least(PrefixSet)].name[1])
    /\ \E j \in PrefixSet : /\ j > Least(PrefixSet)
                            /\ ~is_sequel(Candidates[j].name[1])
                            /\ Candidates[j].appid # Candidates[Least(PrefixSet)].appid
    /\ st_result[1] = IdOf(Least(PrefixSet))

\* C13: in the similarity stage the candidates scored are those that are no
\* sequels (unless the query is one) and whose normalized name contains or is
\* contained in the normalized query, or all candidates when there is none:
\* an identifier returned is that of a best-scoring candidate of this set,
\* "unresolved" means this set has no candidate at 0.3 or more, and for a
\* query that is no sequel a sequel is returned only when the filter kept
\* nothing.
C13_FilteredSetScored ==
    SimilarityStage =>
        /\ st_result[1].kind \in {"id", "none"}
        /\ st_result[1].kind = "id" =>
               \E i \in TopSet : st_result[1] = IdOf(i)
        /\ st_result[1].kind = "none" =>
               \A i \in ScoredSet : ~RatioGE(Score(i), <<3, 10>>)
        /\ (st_result[1].kind = "id" /\ ~is_sequel(st_name) /\ KeptSet # {}) =>
               \A i \in 1..Len(Candidates) :
                   IdOf(i) = st_result[1] => ~is_sequel(Candidates[i].name[1])

\* the filter kept some candidates and dropped a sequel that scores higher
\* than the candidate returned
C13_Witness ==
    /\ SimilarityStage
    /\ ~is_sequel(st_name)
    /\ KeptSet # {}
    /\ st_result[1].kind = "id"
    /\ \E i \in KeptSet : st_result[1] = IdOf(i)
    /\ \E j \in (1..Len(Candidates)) \ KeptSet :
           /\ is_sequel(Candidates[j].name[1])
           /\ \A i \in KeptSet : RatioGT(Score(j), Score(i))

\* C14: the similarity stage returns the identifier of the first candidate
\* of the scored set that has the highest similarity to the query, and
\* returns "unresolved" exactly when that score is below 0.3.
C14_BestFirstSeen ==
    SimilarityStage =>
        LET sc == Scores
            best == Least(TopOf(sc))
        IN  st_result[1] = IF RatioGE(sc[best], <<3, 10>>)
                           THEN IdOf(best)
                           ELSE NoId

\* two candidates tie at exactly 0.3 and the first is returned
C14_Witness ==
    /\ SimilarityStage
    /\ \E i, j \in TopSet : /\ i < j
                            /\ Candidates[i].appid # Candidates[j].appid
    /\ Score(Least(TopSet))[1] * 10 = 3 * Score(Least(TopSet))[2]
    /\ st_result[1] = IdOf(Least(TopSet))

\* C15 as stated: an answer that is not JSON, that is JSON of another shape
\* than a list of {name, appid}, or that is an empty list, resolves to
\* "unresolved"; the call never raises.
C15_MalformedUnresolved ==
    (st_pc = "done" /\ (~Listed \/ ~AllCandidates)) => st_result[1] = NoId

-----------------------------------------------------------------------------
(* Properties of the similarity scorer *)

\* C16 as stated: similarity(a, b) = similarity(b, a) for every pair of
\* strings, the score being 2*M/(len(a)+len(b)) with M the total length of
\* the blocks found by the longest-common-block recursion.
C16_Symmetric ==
    sim_pc = "done" => sim_ab[1] * sim_ba[2] = sim_ba[1] * sim_ab[2]

-----------------------------------------------------------------------------
(* Properties of the duration estimator *)

\* the estimator has returned for a positive playtime
Estimated == est_pc = "done" /\ est_playtime # <<>> /\ est_playtime[1] > 0

\* a genre / a tag is present, whatever its case
HasGenre(g) == \E i \in 1..Len(est_genres) : Lower(est_genres[i]) = g

HasTag(t) == \E i \in 1..Len(est_tags) : Lower(est_tags[i]) = t

HasLongTag ==
    \/ HasTag(<<"o", "p", "e", "n", " ", "w", "o", "r", "l", "d">>)
    \/ HasTag(<<"s", "a", "n", "d", "b", "o", "x">>)
    \/ HasTag(<<"c", "r", "a", "f", "t", "i", "n", "g">>)
    \/ HasTag(<<"e", "x", "p", "l", "o", "r", "a", "t", "i", "o", "n">>)
    \/ HasTag(<<"b", "a", "s", "e", " ", "b", "u", "i", "l", "d", "i", "n", "g">>)

HasShortTag ==
    \/ HasTag(<<"s", "u", "r", "v", "i", "v", "a", "l">>)
    \/ HasTag(<<"h", "o", "r", "r", "o", "r">>)

HasFloorTag ==
    \/ HasTag(<<"a", "u", "t", "o", "m", "a", "t", "i", "o", "n">>)
    \/ HasTag(<<"f", "a", "c", "t", "o", "r", "y">>)
    \/ HasTag(<<"m", "a", "n", "a", "g", "e", "m", "e", "n", "t">>)

HasSimulation == HasGenre(<<"s", "i", "m", "u", "l", "a", "t", "i", "o", "n">>)

\* the base ratio of the rule table, in hundredths
RuleBase ==
    IF HasGenre(<<"r", "p", "g">>)
       \/ HasGenre(<<"r", "o", "l", "e", "-", "p", "l", "a", "y", "i", "n", "g">>) THEN 500
    ELSE IF HasGenre(<<"s", "t", "r", "a", "t", "e", "g", "y">>) THEN 300
    ELSE IF HasGenre(<<"a", "d", "v", "e", "n", "t", "u", "r", "e">>) THEN 250
    ELSE IF HasGenre(<<"a", "c", "t", "i", "o", "n">>) THEN 220
    ELSE IF HasGenre(<<"i", "n", "d", "i", "e">>) THEN 180
    ELSE IF HasGenre(<<"p", "l", "a", "t", "f", "o", "r", "m", "e", "r">>) THEN 150
    ELSE IF HasGenre(<<"r", "o", "g", "u", "e", "l", "i", "k", "e">>) THEN 250
    ELSE 250

\* the ratio after the tag adjustment of the rule table, in hundredths
RuleAdjusted ==
    IF HasLongTag THEN (RuleBase * 35) \div 10
    ELSE IF HasShortTag THEN (RuleBase * 12) \div 10
    ELSE RuleBase

\* C17: the short-game clamp comes first: for any genres and tags a playtime
\* p with 0 < p <= 2 yields round(1.2*p, 1), 2 < p <= 3 yields
\* round(1.5*p, 1) and 3 < p <= 5 yields round(2.0*p, 1).
C17_ShortClampFirst ==
    (Estimated /\ est_playtime[1] <= 5) =>
        est_result = <<IF est_playtime[1] <= 2 THEN 12 * est_playtime[1]
                       ELSE IF est_playtime[1] <= 3 THEN 15 * est_playtime[1]
                       ELSE 20 * est_playtime[1]>>

\* three hours of a role-playing game with an open world and factories
C17_Witness ==
    /\ Estimated /\ est_playtime[1] = 3
    /\ HasGenre(<<"r", "p", "g">>)
    /\ HasTag(<<"o", "p", "e", "n", " ", "w", "o", "r", "l", "d">>)
    /\ HasTag(<<"f", "a", "c", "t", "o", "r", "y">>)
    /\ est_result = <<45>>

\* C18: for a playtime above 5 the base ratio is that of the first genre
\* present, whatever its case, in the priority rpg/role-playing 5.0,
\* strategy 3.0, adventure 2.5, action 2.2, indie 1.8, platformer 1.5,
\* roguelike 2.5, and 2.5 when none is present; the order of the genres in
\* the input does not matter.  Observed with no tag rule and no floor.
C18_GenrePriority ==
    (Estimated /\ est_playtime[1] > 5
       /\ ~HasLongTag /\ ~HasShortTag /\ ~HasFloorTag /\ ~HasSimulation) =>
        est_result = <<Round1(est_playtime[1] * RuleBase)>>

\* "Action" before "RPG": the later genre has the higher priority
C18_Witness ==
    /\ Estimated /\ est_playtime[1] > 5
    /\ Len(est_genres) = 2
    /\ est_genres[1] = <<"A", "c", "t", "i", "o", "n">>
    /\ est_genres[2] = <<"R", "P", "G">>
    /\ est_tags = <<<<"C", "o", "o", "p">>>>
    /\ est_result = <<50 * est_playtime[1]>>

\* C19: the tag adjustment is exclusive: with any of open world, sandbox,
\* crafting, exploration, base building the ratio is multiplied by 3.5 and
\* not by 1.2, even when survival or horror is present too; 1.2 applies only
\* when none of the first group is present.  Observed with no floor.
C19_TagsExclusive ==
    (Estimated /\ est_playtime[1] > 5 /\ ~HasFloorTag /\ ~HasSimulation) =>
        est_result = <<Round1(est_playtime[1] * RuleAdjusted)>>

\* "Survival" stands before "Open World": only 3.5 is applied
C19_Witness ==
    /\ Estimated /\ est_playtime[1] = 7
    /\ est_genres = <<>>
    /\ Len(est_tags) = 2
    /\ Lower(est_tags[1]) = <<"s", "u", "r", "v", "i", "v", "a", "l">>
    /\ Lower(est_tags[2]) = <<"o", "p", "e", "n", " ", "w", "o", "r", "l", "d">>
    /\ est_result = <<612>>

\* C20: the floors come after the genre ratio and the tag adjustment and
\* never lower the ratio: with a playtime above 5 "simulation" makes the
\* ratio at least 3.5, any of automation/factory/management at least 4.0, a
\* ratio already above a floor is unchanged, and the result is
\* round(playtime * ratio, 1).
C20_FloorsLast ==
    (Estimated /\ est_playtime[1] > 5) =>
        LET r1 == IF HasSimulation /\ RuleAdjusted < 350
                  THEN 350 ELSE RuleAdjusted
            r2 == IF HasFloorTag /\ r1 < 400 THEN 400 ELSE r1
        IN  /\ est_result = <<Round1(est_playtime[1] * r2)>>
            /\ HasSimulation => est_result[1] >= 35 * est_playtime[1]
            /\ HasFloorTag => est_result[1] >= 40 * est_playtime[1]
            /\ est_result[1] >= Round1(est_playtime[1] * RuleAdjusted)

\* an indie survival simulation: 1.8 * 1.2 = 2.16 is raised to 3.5
C20_Witness ==
    /\ Estimated /\ est_playtime[1] > 5
    /\ HasGenre(<<"i", "n", "d", "i", "e">>)
    /\ HasSimulation
    /\ HasShortTag
    /\ ~HasFloorTag /\ ~HasLongTag
    /\ est_result = <<35 * est_playtime[1]>>

\* C21: estimate_hltb_from_rawg returns none exactly when the playtime is
\* absent or not positive; for a positive integer playtime and any genres
\* and tags it returns a positive number, at least 1.2 times the playtime.
C21_NoneIffNoPlaytime ==
    est_pc = "done" =>
        IF est_playtime = <<>> THEN est_result = <<>>
        ELSE IF est_playtime[1] <= 0 THEN est_result = <<>>
        ELSE /\ est_result # <<>>
             /\ est_result[1] > 0
             /\ est_result[1] >= 12 * est_playtime[1]

\* a playtime of 0, with a genre and a tag: none
C21_Witness ==
    /\ est_pc = "done"
    /\ est_playtime = <<0>>
    /\ HasGenre(<<"p", "l", "a", "t", "f", "o", "r", "m", "e", "r">>)
    /\ HasLongTag
    /\ est_result = <<>>

\* the estimate, in tenths, of q hours with the genres and tags of the call
EstimateAt(q) == estimate_hltb_from_rawg(<<q>>, est_genres, est_tags)[1]

\* C30 as stated: for fixed genres and tags the estimate never decreases when
\* the positive integer playtime grows, across the clamp boundaries at 2, 3
\* and 5 as well.
C30_Monotone ==
    Estimated =>
        \A q \in (est_playtime[1] + 1)..(MaxPlaytime + 1) :
            est_result[1] <= EstimateAt(q)

\* C30 as amended: the estimate never decreases when the playtime grows,
\* except from 5 to 6 hours when the final ratio is 1.5 (platformer decides
\* the ratio, no tag adjustment, no floor): 10.0 is followed by 9.0.
C30_MonotoneButAtFive ==
    Estimated =>
        \A q \in (est_playtime[1] + 1)..(MaxPlaytime + 1) :
            (est_result[1] <= EstimateAt(q))
                <=> ~(/\ est_playtime[1] = 5 /\ q = 6
                      /\ RuleAdjusted = 150
                      /\ ~HasSimulation /\ ~HasFloorTag)

\* five hours of an indie game: 10.0, and six hours give 10.8
C30_Witness ==
    /\ Estimated /\ est_playtime[1] = 5
    /\ RuleAdjusted = 180 /\ ~HasSimulation /\ ~HasFloorTag
    /\ est_result = <<100>>
    /\ EstimateAt(6) = 108

\* the (title, identifier) pairs get_rawg_data can be called with
Pairs == Titles \X AppIds

\* the cache key of every pair
KeyOf == [p \in Pairs |-> CacheKey(p[1], p[2])]

\* the pairs whose key the cache holds
CachedPairs == {p \in Pairs : KeyOf[p] \in DOMAIN RAWG_CACHE}

\* different pairs have different keys
KeysDistinct == \A p, q \in Pairs : p # q => KeyOf[p] # KeyOf[q]

\* C26: the cache only grows and its entries are final.  A step never
\* removes or changes an entry; a step that writes adds exactly one entry,
\* under the key of the running call's own (title, identifier), and is the
\* step in which a strategy's match was accepted; a call whose strategies
\* all fail returns with the cache it started from; different pairs never
\* share a key.
C26_CacheGrowsOnly ==
    [][/\ \A k \in DOMAIN RAWG_CACHE :
             k \in DOMAIN RAWG_CACHE' /\ RAWG_CACHE'[k] = RAWG_CACHE[k]
       /\ RAWG_CACHE' # RAWG_CACHE =>
             /\ DOMAIN RAWG_CACHE' \ DOMAIN RAWG_CACHE
                    = {CacheKey(game_name, steam_app_id)}
             /\ pc = "query_done" /\ pc' = "returned" /\ matched'
             /\ Eval(strategy, res, game_name).kind = "match"
       /\ (pc = "query_done" /\ pc' = "returned" /\ ~matched') =>
             RAWG_CACHE' = RAWG_CACHE
       /\ Cardinality(CachedPairs') = Cardinality(DOMAIN RAWG_CACHE')
       /\ KeysDistinct]_vars

\* the same title was accepted once without and once with an identifier:
\* two entries
C26_Witness ==
    /\ pc = "returned" /\ matched /\ ncalls = 2
    /\ CacheKey(game_name, None) \in DOMAIN RAWG_CACHE
    /\ CacheKey(game_name, Some(7)) \in DOMAIN RAWG_CACHE

\* the strategy that sent the j-th search string of the call
StrategyAt(j) ==
    IF j = 1 THEN 1
    ELSE IF sanitize_title(game_name) # game_name THEN j
    ELSE j + 1

\* C27 as stated: the search strings of one call are pairwise distinct.
C27_DistinctSearches ==
    \A i, j \in DOMAIN searches : i # j => searches[i] # searches[j]

\* C27 as amended: two search strings of one call are equal in two cases
\* only.  The slug of strategy 3 repeats the search string sent just before
\* it (the sanitized title of strategy 2, or the raw title when strategy 2
\* was skipped) exactly when the sanitized title holds no space; the
\* "steam <id>" of strategy 4 repeats the raw or sanitized title exactly
\* when the title sanitizes to "steam <id>".
C27_DistinctButSlug ==
    \A i, j \in DOMAIN searches :
        i < j =>
           (searches[i] = searches[j]
               <=> \/ /\ StrategyAt(j) = 3
                      /\ i = j - 1
                      /\ \A n \in DOMAIN sanitize_title(game_name) :
                             sanitize_title(game_name)[n] # " "
                   \/ /\ StrategyAt(j) = 4
                      /\ i = j - 2
                      /\ sanitize_title(game_name) = SteamQuery(steam_app_id))

\* "Ba" was searched as "Ba", then "ba", then "ba" again
C27_Witness ==
    /\ Ended
    /\ Len(searches) >= 3
    /\ searches[1] # searches[2]
    /\ searches[2] = searches[3]
    /\ StrategyAt(3) = 3

\* C25: every get_rawg_data call terminates, whatever the catalog answers;
\* it issues no request on a cache hit, at most 12 requests on a cache miss
\* and at most 9 when no identifier is known.
C25_TerminatesBounded ==
    /\ [](/\ nrequests <= 12
          /\ IsNone(steam_app_id) => nrequests <= 9
          /\ (pc = "returned" /\ searches = <<>>) => nrequests = 0)
    /\ (pc \in {"request", "sleep", "query_done"})
           ~> (pc \in {"returned", "raised"})

\* all four strategies used their three attempts: twelve requests
C25_Witness ==
    /\ pc = "returned"
    /\ ~matched
    /\ ~IsNone(steam_app_id)
    /\ Len(searches) = 4
    /\ nrequests = 12

\* the words of a title: its maximal runs of word characters, as pairs of
\* their first and last positions
WordsOf(s) ==
    {w \in (1..Len(s)) \X (1..Len(s)) :
        /\ w[1] <= w[2]
        /\ \A n \in w[1]..w[2] : IsWordChar(s[n])
        /\ (w[1] = 1 \/ ~IsWordChar(s[w[1] - 1]))
        /\ (w[2] = Len(s) \/ ~IsWordChar(s[w[2] + 1]))}

\* the value of a decimal numeral without a leading zero, -1 for any other
\* string
RECURSIVE NumeralValue(_)
NumeralValue(t) ==
    IF t = <<>> \/ t[Len(t)] \notin Digits \/ t[1] = "0" THEN -1
    ELSE IF Len(t) = 1 THEN CHOOSE d \in 1..9 : DigitChar(d) = t[1]
    ELSE LET d == CHOOSE n \in 0..9 : DigitChar(n) = t[Len(t)]
             h == NumeralValue(SubSeq(t, 1, Len(t) - 1))
         IN  IF h < 0 THEN -1 ELSE 10 * h + d

\* C22: is_sequel(title) is true iff one of the title's words is, without
\* regard to case, ii, iii, iv or v, or is an integer from 1 to 10; a digit
\* inside a longer run of digits (a year, a number from 11) does not count.
C22_SequelWords ==
    seq_pc = "done" =>
        (seq_result <=>
            \E w \in WordsOf(seq_title) :
                LET t == SubSeq(seq_title, w[1], w[2])
                IN  \/ Lower(t) \in { <<"i", "i">>, <<"i", "i", "i">>,
                                       <<"i", "v">>, <<"v">> }
                    \/ NumeralValue(t) \in 1..10)

\* a year is not a sequel number
C22_Witness ==
    /\ seq_pc = "done"
    /\ seq_title = <<"2", "0", "1", "2">>
    /\ ~seq_result

\* what the identity catalog answers to the first segment of the page's
\* title
PageSearch ==
    search_app_id_by_name(pg_page[1].name[1].title[1], pg_response[1])

\* C23 as stated: when the page's ID property holds a number, that number
\* is returned and no search is issued; otherwise the search is issued once,
\* with the title, when a title exists, and the result is none when the
\* search is unresolved or there is no title.
C23_PresentIdAuthoritative ==
    pg_pc = "done" =>
        IF ~IsNone(pg_page[1].id) /\ ~IsNone(pg_page[1].id[1])
        THEN /\ pg_result = Some(Resolved(pg_page[1].id[1][1]))
             /\ pg_searches = <<>>
        ELSE IF TitlePresent(pg_page[1])
        THEN /\ pg_searches = <<pg_page[1].name[1].title[1]>>
             /\ PageSearch = Unresolved => pg_result = Some(Unresolved)
        ELSE /\ pg_searches = <<>>
             /\ pg_result = Some(Unresolved)

\* C23 as amended: when the page's ID property holds a number other than 0,
\* that number is returned and no search is issued; otherwise (no ID
\* property, an empty one, or 0) the search is issued exactly once, with the
\* plain text of the first segment of the title, when the title has a
\* segment, and an identifier returned is the one the search resolved; the
\* result is none when the search is unresolved or when there is neither
\* such a number nor a title.
C23_NonZeroIdAuthoritative ==
    pg_pc = "done" =>
        IF /\ ~IsNone(pg_page[1].id) /\ ~IsNone(pg_page[1].id[1])
           /\ pg_page[1].id[1][1] # 0
        THEN /\ pg_result = Some(Resolved(pg_page[1].id[1][1]))
             /\ pg_searches = <<>>
        ELSE IF TitlePresent(pg_page[1])
        THEN /\ pg_searches = <<pg_page[1].name[1].title[1]>>
             /\ PageSearch = Unresolved => pg_result = Some(Unresolved)
             /\ pg_result[1].kind = "id" => pg_result = Some(PageSearch)
        ELSE /\ pg_searches = <<>>
             /\ pg_result = Some(Unresolved)

\* a page whose ID is 0 and whose title is "ab": the catalog is searched
\* and its identifier returned
C23_Witness ==
    /\ pg_pc = "done"
    /\ pg_page[1].id = Some(Some(0))
    /\ pg_searches = << <<"a", "b">> >>
    /\ pg_result = Some(Resolved(1))

\* the results of the first n answers, one after the other
RECURSIVE ResultsUpTo(_)
ResultsUpTo(n) ==
    IF n = 0 THEN <<>> ELSE ResultsUpTo(n - 1) \o nt_received[n].results

\* C24: get_notion_pages requests until an answer has no true has_more.
\* The first request carries no cursor, request k+1 carries the next_cursor
\* of answer k, every answer but the last one received has has_more true,
\* the call ends with the first answer that has not, and the list returned
\* is the concatenation of the answers' results in request order.
C24_Pagination ==
    /\ Len(nt_sent) = Len(nt_received)
    /\ nt_sent # <<>> => nt_sent[1] = None
    /\ \A k \in 1..(Len(nt_sent) - 1) :
          /\ nt_received[k].has_more = "true"
          /\ nt_sent[k + 1] = Some(nt_received[k].next_cursor)
    /\ nt_pc = "done" =>
          /\ nt_received # <<>>
          /\ nt_received[Len(nt_received)].has_more # "true"
    /\ nt_pc = "post" =>
          \A k \in 1..Len(nt_received) : nt_received[k].has_more = "true"
    /\ nt_results = ResultsUpTo(Len(nt_received))

\* three requests, the last answer without has_more
C24_Witness ==
    /\ nt_pc = "done"
    /\ nt_sent = <<None, Some("c1"), Some("c2")>>
    /\ nt_received[3].has_more = "absent"
    /\ nt_results = <<"p", "q", "r", "p">>

\* C28: get_steam_game_details queries the enrichment catalog only for
\* released games.  For a game reported coming_soon (or not found) there is
\* no get_rawg_data call, no enrichment request and no cache write, and the
\* estimate is none; for a released game get_rawg_data is called exactly
\* once, with the catalog's name and the identifier, and the estimate is the
\* estimator's value of the record it returned.
C28_EnrichReleasedOnly ==
    /\ ncalls <= 1
    /\ (~dt_answer[1].success \/ dt_answer[1].coming_soon = "true") =>
          /\ pc = "idle" /\ ncalls = 0 /\ nrequests = 0
          /\ RAWG_CACHE = <<>>
          /\ dt_pc \in {"called", "done"}
    /\ (dt_pc = "done" /\ dt_answer[1].coming_soon = "true") =>
          dt_result = Some(GameData(FALSE, None))
    /\ (dt_pc = "done" /\ dt_answer[1].success
            /\ dt_answer[1].coming_soon # "true") =>
          /\ ncalls = 1
          /\ pc = "returned"
          /\ game_name = dt_answer[1].name
          /\ steam_app_id = Some(dt_app_id)
          /\ dt_result[1].released
          /\ dt_result[1].hltb_time
                = estimate_hltb_from_rawg(result[1].playtime,
                                          Spelled(result[1].genres),
                                          Spelled(result[1].tags))

\* a released game whose record has a playtime of 10 hours and the genre
\* Action: 22.0 hours
C28_Witness ==
    /\ dt_pc = "done"
    /\ dt_answer[1].coming_soon = "absent"
    /\ ncalls = 1 /\ matched
    /\ result = Some(extract_rawg_fields(GameAB))
    /\ dt_result = Some(GameData(TRUE, Some(220)))

\* C29: in the export loop pages are processed one at a time in retrieval
\* order; nothing is requested or written for a page whose Platform is not
\* "Steam" (no search, no details lookup, no write); a write for a page
\* comes only after an identifier was obtained and the details lookup
\* returned data.
C29_NonSteamIgnored ==
    /\ \A a \in DOMAIN ex_log :
          /\ ex_log[a].page \in 1..ex_index
          /\ ex_pages[ex_log[a].page].platform = "Steam"
          /\ \A b \in DOMAIN ex_log : a < b => ex_log[a].page <= ex_log[b].page
          /\ ex_log[a].what = "write" =>
                /\ a > 1
                /\ ex_log[a - 1] = [page |-> ex_log[a].page, what |-> "details"]
                /\ ex_pages[ex_log[a].page].details
                /\ get_app_id_for_page(ex_pages[ex_log[a].page].page,
                                       ex_pages[ex_log[a].page].resp).result.kind
                      = "id"

====
